---- MODULE Spec2Model ----
(***************************************************************************)
(* Model of the casino-games semantic search service:                      *)
(*   - LocalDbpediaService (services/localDbpediaService.js): the external *)
(*     knowledge adapter with its local dataset, file cache and the two    *)
(*     remote sub-queries raced against a request-level timeout;           *)
(*   - UnifiedSearchService (services/unifiedSearchService.js): the mode   *)
(*     gate, the fusion pipeline combineAndRankResults and the response;   *)
(*   - NLPServiceExtended and NLPService (services/nlpService*.js): the    *)
(*     steps of processQuery and the intent patterns;                      *)
(*   - OntologyService (services/ontologyService.js) behind the handlers   *)
(*     of OntologyController: loading the OWL file and querying the store. *)
(* Strings are sequences of one-character strings, so that lowercasing,    *)
(* substring tests, cache-key generation and the name fold are computed.   *)
(***************************************************************************)
EXTENDS Integers, Sequences, FiniteSets, TLC

VARIABLES
  localDataset,  \* LocalDbpediaService.localDataset
  cacheDir,      \* the files of cacheDir: file name -> content
  isOnline,      \* LocalDbpediaService.isOnline
  now,           \* Date.now(), in ms since the service started
  ticks,         \* number of clock advances so far
  pc,            \* position of the request in flight
  req,           \* the unified search request in flight, or the last one
  trace,         \* stages searchWithFallback consulted so far for req, with their yield
  subq,          \* the two searchInLanguage calls: status and value
  pending,       \* online results awaiting cacheResults
  remote,        \* fetches issued for req
  last,          \* the last completed searchWithFallback call
  searches,      \* number of unified searches started
  fin,           \* inputs of combineAndRankResults
  fout,          \* its result
  fres,          \* what UnifiedSearchService.search returns after the fusion
  nin,           \* the query given to processQuery
  nout,          \* what processQuery made of it
  owlFile,       \* the file at OWL_FILE_PATH
  store,         \* OntologyService.store: the statements of the graph
  loaded,        \* OntologyService.loaded
  started,       \* app.js has run
  microtasks,    \* the continuations of loadOntology awaiting their turn
  ores,          \* the last answer to a request that needs the ontology
  oreqs,         \* number of such requests so far
  wfile,         \* the text of one cache file two cacheResults calls write
  writers,       \* those two calls: position and text to write
  tin,           \* the statements and the text given to searchByText
  tout           \* what searchByText returned

vars == <<localDataset, cacheDir, isOnline, now, ticks, pc, req, trace,
          subq, pending, remote, last, searches, fin, fout, fres,
          nin, nout, owlFile, store, loaded, started, microtasks, ores, oreqs,
          wfile, writers, tin, tout>>

adapterVars == <<localDataset, cacheDir, isOnline, now, ticks, pc, req,
                 trace, subq, pending, remote, last, searches>>

fusionVars == <<fin, fout, fres>>

nluVars == <<nin, nout>>

ontologyVars == <<owlFile, store, loaded, started, microtasks, ores, oreqs>>

writerVars == <<wfile, writers>>

textVars == <<tin, tout>>

-----------------------------------------------------------------------------
(* Bounds of the model *)

MaxSearches == 2
MaxTicks == 1
MaxCandidates == 3
MaxWords == 2
MaxRequests == 3

-----------------------------------------------------------------------------
(* Strings *)

UpperChars == <<"A","B","C","D","E","F","G","H","I","J","K","L","M",
                "N","O","P","Q","R","S","T","U","V","W","X","Y","Z">>
LowerChars == <<"a","b","c","d","e","f","g","h","i","j","k","l","m",
                "n","o","p","q","r","s","t","u","v","w","x","y","z">>
DigitChars == {"0","1","2","3","4","5","6","7","8","9"}

Range(s) == {s[i] : i \in 1..Len(s)}

\* The lowercase letter of each uppercase letter
LowerOf ==
  [c \in Range(UpperChars) |->
     LowerChars[CHOOSE i \in 1..Len(UpperChars) : UpperChars[i] = c]]

ToLowerChar(c) == IF c \in DOMAIN LowerOf THEN LowerOf[c] ELSE c

toLowerCase(s) == [i \in 1..Len(s) |-> ToLowerChar(s[i])]

LowerAlnumChars == Range(LowerChars) \cup DigitChars

IsLowerAlnum(c) == c \in LowerAlnumChars

includes(s, t) ==
  \E i \in 0..(Len(s) - Len(t)) : SubSeq(s, i + 1, i + Len(t)) = t

startsWith(s, t) == Len(t) <= Len(s) /\ SubSeq(s, 1, Len(t)) = t

IsSpace(c) == c = " "

trim(s) ==
  IF \A i \in 1..Len(s) : IsSpace(s[i]) THEN <<>>
  ELSE LET a == CHOOSE i \in 1..Len(s) :
                  ~IsSpace(s[i]) /\ \A j \in 1..(i - 1) : IsSpace(s[j])
           b == CHOOSE i \in 1..Len(s) :
                  ~IsSpace(s[i]) /\ \A j \in (i + 1)..Len(s) : IsSpace(s[j])
       IN SubSeq(s, a, b)

Truthy(s) == s # <<>>

\* Array.prototype.sort with a comparator (a, b) => key(b) - key(a), keys[i]
\* being the key of s[i]: stable, descending. Element i lands after every
\* element with a higher key and after the earlier elements of equal key.
sortDescending(s, keys) ==
  LET n == Len(s)
      t == SubSeq(s, 1, n)
      k == SubSeq(keys, 1, n)
      Rank(i) == Cardinality({j \in 1..n :
                    k[j] > k[i] \/ (k[j] = k[i] /\ j < i)}) + 1
  IN [p \in 1..n |-> t[CHOOSE i \in 1..n : Rank(i) = p]]

\* .sort((a, b) => b.relevance - a.relevance)
sortByRelevance(s) == sortDescending(s, [i \in 1..Len(s) |-> s[i].relevance])

RECURSIVE SeqSum(_)
SeqSum(s) == IF s = <<>> THEN 0 ELSE Head(s) + SeqSum(Tail(s))

-----------------------------------------------------------------------------
(* Data of the model: search terms, the bundled dataset, remote responses *)

Null == [kind |-> "null"]
NoFile == [kind |-> "none"]
CorruptFile == [kind |-> "corrupt"]

TermBj == <<"B","j">>
Term21 == <<"2","1">>
\* A different term with the cache key of TermBj
TermBjMark == <<"B","j","?">>
Terms == {TermBj, Term21}

\* One entry of offline_dbpedia/casino_games_dataset.json
EntryBj ==
  [id |-> "bj", uri |-> "ds:bj", label |-> <<"B","j"," ","c","l","u","b">>,
   abstract |-> <<>>, description |-> <<"c","a","r","d","s">>,
   category |-> <<"c","a","r","d">>, language |-> "en",
   thumbnail |-> <<>>, comment |-> <<>>, properties |-> << <<"b","j">> >>]

\* What reading the dataset file can give: unreadable, or its entries
DatasetFiles == {[kind |-> "unreadable"],
                 [kind |-> "json", entries |-> <<EntryBj>>]}

\* SPARQL bindings the remote endpoints may answer with
BindingBj ==
  [resource |-> "u1", label |-> <<"B","j">>, abstract |-> <<>>,
   thumbnail |-> <<>>, comment |-> <<>>]
BindingBj21 ==
  [resource |-> "u2", label |-> <<"B","j"," ","2","1">>, abstract |-> <<"a">>,
   thumbnail |-> <<>>, comment |-> <<>>]

\* Bodies a remote endpoint may send: not a SPARQL result, or bindings
BodyData == {[kind |-> "malformed"],
             [kind |-> "sparql", bindings |-> <<BindingBj, BindingBj21, BindingBj>>]}

Langs == {"en", "es"}

-----------------------------------------------------------------------------
(* LocalDbpediaService: pure helpers *)

cacheExpiry == 7 * 24 * 60 * 60 * 1000

\* The elements of s at the indices of idx, in order
keepAt(s, idx) ==
  LET Nth(p) == CHOOSE i \in idx : Cardinality({j \in idx : j < i}) = p - 1
  IN [p \in 1..Cardinality(idx) |-> s[Nth(p)]]

generateCacheKey(searchTerm) ==
  LET lower == toLowerCase(searchTerm)
      \* .replace(/[^a-z0-9]/g, "_")
      under == [i \in 1..Len(lower) |->
                  IF IsLowerAlnum(lower[i]) THEN lower[i] ELSE "_"]
      \* .replace(/_+/g, "_")
      squeezed == keepAt(under,
                    {i \in 1..Len(under) :
                       ~(under[i] = "_" /\ i > 1 /\ under[i - 1] = "_")})
      \* .replace(/^_|_$/g, "")
      noHead == IF squeezed # <<>> /\ Head(squeezed) = "_"
                THEN Tail(squeezed) ELSE squeezed
  IN IF noHead # <<>> /\ noHead[Len(noHead)] = "_"
     THEN SubSeq(noHead, 1, Len(noHead) - 1) ELSE noHead

\* getEmptyResult without its source tag
getEmptyResultUntagged ==
  [english |-> <<>>, spanish |-> <<>>, total |-> 0, source |-> "unknown"]

getEmptyResult ==
  [english |-> <<>>, spanish |-> <<>>, total |-> 0, source |-> "empty"]

calculateLocalRelevance(entry, searchTerm) ==
  LET term == toLowerCase(searchTerm)
      inLabel == Truthy(entry.label) /\ includes(toLowerCase(entry.label), term)
  IN (IF inLabel THEN 10 ELSE 0)
     + (IF inLabel /\ startsWith(toLowerCase(entry.label), term) THEN 5 ELSE 0)
     + (IF Truthy(entry.abstract) /\ includes(toLowerCase(entry.abstract), term)
        THEN 3 ELSE 0)
     + (IF Truthy(entry.description)
           /\ includes(toLowerCase(entry.description), term) THEN 2 ELSE 0)
     + SeqSum([i \in 1..Len(entry.properties) |->
                 IF includes(toLowerCase(entry.properties[i]), term)
                 THEN 1 ELSE 0])
     + (IF Truthy(entry.category) /\ includes(toLowerCase(entry.category), term)
        THEN 2 ELSE 0)

formatLocalEntry(entry) ==
  [uri |-> entry.uri, label |-> entry.label,
   abstract |-> IF Truthy(entry.abstract) THEN entry.abstract
                ELSE entry.description,
   description |-> entry.description, thumbnail |-> entry.thumbnail,
   comment |-> entry.comment, language |-> entry.language]

WithRelevance(item, score) ==
  [uri |-> item.uri, label |-> item.label, abstract |-> item.abstract,
   description |-> item.description, thumbnail |-> item.thumbnail,
   comment |-> item.comment, language |-> item.language, relevance |-> score]

searchLocal(dataset, searchTerm) ==
  IF dataset.kind = "null" THEN getEmptyResult
  ELSE
    LET term == trim(toLowerCase(searchTerm))
        entries == dataset.entries
        hits == SelectSeq(entries, LAMBDA e : calculateLocalRelevance(e, term) > 0)
        results == sortByRelevance(
                     [i \in 1..Len(hits) |->
                        WithRelevance(formatLocalEntry(hits[i]),
                                      calculateLocalRelevance(hits[i], term))])
    IN [english |-> SelectSeq(results, LAMBDA r : r.language = "en"),
        spanish |-> SelectSeq(results, LAMBDA r : r.language = "es"),
        total |-> Len(results), source |-> "local-dataset"]

calculateOnlineRelevance(binding) ==
  1 + (IF Truthy(binding.abstract) THEN 2 ELSE 0)
    + (IF Truthy(binding.thumbnail) THEN 1 ELSE 0)
    + (IF Truthy(binding.comment) THEN 1 ELSE 0)

parseOnlineResults(data, lang) ==
  IF data.kind # "sparql" THEN <<>>
  ELSE
    LET b == data.bindings
        \* uniqueResults: the first binding of each non-empty uri
        firsts == keepAt(b, {i \in 1..Len(b) :
                    /\ b[i].resource # ""
                    /\ \A j \in 1..(i - 1) : b[j].resource # b[i].resource})
        items == [i \in 1..Len(firsts) |->
                    [uri |-> firsts[i].resource, label |-> firsts[i].label,
                     abstract |-> firsts[i].abstract,
                     comment |-> firsts[i].comment,
                     description |-> IF Truthy(firsts[i].abstract)
                                     THEN firsts[i].abstract
                                     ELSE firsts[i].comment,
                     thumbnail |-> firsts[i].thumbnail, language |-> lang,
                     relevance |-> calculateOnlineRelevance(firsts[i])]]
    IN sortByRelevance(items)

-----------------------------------------------------------------------------
(* LocalDbpediaService: the file cache *)

\* The files cacheDir may hold, by name without ".json", in readdir order.
\* <<>> is the file ".json", the key of a term without letters or digits.
FileOrder ==
  << <<"2","1">>, <<"b","j">>, <<>>, <<"x">>,
     <<"d","e","t","a","i","l","_","b","j">> >>
FileNames == Range(FileOrder)

EmptyDir == [f \in FileNames |-> NoFile]

\* fs.unlink
Unlink(dir, name) == [dir EXCEPT ![name] = NoFile]

filterCachedResults(results, searchTerm) ==
  LET term == toLowerCase(searchTerm)
      filterFn(r) ==
        \/ Truthy(r.label) /\ includes(toLowerCase(r.label), term)
        \/ Truthy(r.description) /\ includes(toLowerCase(r.description), term)
        \/ Truthy(r.abstract) /\ includes(toLowerCase(r.abstract), term)
  IN [english |-> SelectSeq(results.english, filterFn),
      spanish |-> SelectSeq(results.spanish, filterFn)]

calculateFuzzyRelevance(result, term) ==
  LET label == toLowerCase(result.label)
      description == toLowerCase(result.description)
  IN (IF includes(label, term) THEN 10 ELSE 0)
     + (IF startsWith(label, term) THEN 5 ELSE 0)
     + (IF includes(description, term) THEN 3 ELSE 0)
     + (IF Truthy(result.abstract) /\ includes(toLowerCase(result.abstract), term)
        THEN 2 ELSE 0)

\* getExactCacheResults that reports an expired entry as a miss and leaves its
\* file in place
getExactCacheResultsKeepsExpired(dir, searchTerm, t) ==
  LET parsed == dir[generateCacheKey(searchTerm)]
  IN [res |-> IF parsed.kind = "entry" /\ t <= parsed.expiry
              THEN parsed.results ELSE Null,
      dir |-> dir]

\* The value getExactCacheResults returns (Null for null) and the directory it
\* leaves: an unreadable or unparseable file is a miss and stays; an expired
\* one is unlinked.
getExactCacheResults(dir, searchTerm, t) ==
  LET cacheKey == generateCacheKey(searchTerm)
      parsed == dir[cacheKey]
  IN IF parsed.kind \in {"none", "corrupt"} THEN [res |-> Null, dir |-> dir]
     ELSE IF t <= parsed.expiry
          THEN [res |-> IF parsed.kind = "entry" THEN parsed.results ELSE Null,
                dir |-> dir]
          ELSE [res |-> Null, dir |-> Unlink(dir, cacheKey)]

\* The per-file loop of searchSimilarInCache over FileOrder[1..n]:
\* the results collected and the directory left
RECURSIVE ScanFiles(_, _, _, _)
ScanFiles(dir, searchTerm, t, n) ==
  IF n = 0 THEN [all |-> <<>>, dir |-> dir]
  ELSE
    LET before == ScanFiles(dir, searchTerm, t, n - 1)
        file == FileOrder[n]
        parsed == dir[file]
    IN CASE parsed.kind = "none" -> before
         [] parsed.kind = "corrupt" ->
              [all |-> before.all, dir |-> Unlink(before.dir, file)]
         [] parsed.kind = "entry" ->
              IF t <= parsed.expiry
              THEN LET filtered == filterCachedResults(parsed.results, searchTerm)
                   IN [all |-> before.all \o filtered.english \o filtered.spanish,
                       dir |-> before.dir]
              ELSE before
         [] OTHER ->
              \* a file without results: filterCachedResults throws on it
              IF t <= parsed.expiry
              THEN [all |-> before.all, dir |-> Unlink(before.dir, file)]
              ELSE before

\* searchSimilarInCache whose per-file catch does not unlink the file that
\* could not be parsed
searchSimilarInCacheKeepsUnparseable(dir, searchTerm, t) ==
  LET scan == ScanFiles(dir, searchTerm, t, Len(FileOrder))
      scored == sortByRelevance(
                  [i \in 1..Len(scan.all) |->
                     WithRelevance(scan.all[i],
                       calculateFuzzyRelevance(scan.all[i],
                                               toLowerCase(searchTerm)))])
      kept == [f \in FileNames |->
                 IF dir[f].kind = "corrupt" THEN dir[f] ELSE scan.dir[f]]
  IN IF scan.all = <<>> THEN [res |-> getEmptyResult, dir |-> kept]
     ELSE [res |-> [english |-> SelectSeq(scored, LAMBDA r : r.language = "en"),
                    spanish |-> SelectSeq(scored, LAMBDA r : r.language = "es"),
                    total |-> Len(scored), source |-> "cache-fuzzy"],
           dir |-> kept]

searchSimilarInCache(dir, searchTerm, t) ==
  LET scan == ScanFiles(dir, searchTerm, t, Len(FileOrder))
      scored == sortByRelevance(
                  [i \in 1..Len(scan.all) |->
                     WithRelevance(scan.all[i],
                       calculateFuzzyRelevance(scan.all[i],
                                               toLowerCase(searchTerm)))])
  IN IF scan.all = <<>> THEN [res |-> getEmptyResult, dir |-> scan.dir]
     ELSE [res |-> [english |-> SelectSeq(scored, LAMBDA r : r.language = "en"),
                    spanish |-> SelectSeq(scored, LAMBDA r : r.language = "es"),
                    total |-> Len(scored), source |-> "cache-fuzzy"],
           dir |-> scan.dir]

WithSource(result, src) ==
  [english |-> result.english, spanish |-> result.spanish,
   total |-> result.total, source |-> src]

\* cacheResults that reports success and leaves no file
cacheResultsDropped(dir, searchTerm, results, t, written) == dir

\* cacheResults that forgets the time to live
cacheResultsExpiresAtOnce(dir, searchTerm, results, t, written) ==
  IF written
  THEN [dir EXCEPT ![generateCacheKey(searchTerm)] =
          [kind |-> "entry", searchTerm |-> searchTerm, results |-> results,
           expiry |-> t]]
  ELSE dir

\* cacheResults: writeFile may fail, which is logged and swallowed
cacheResults(dir, searchTerm, results, t, written) ==
  IF written
  THEN [dir EXCEPT ![generateCacheKey(searchTerm)] =
          [kind |-> "entry", searchTerm |-> searchTerm, results |-> results,
           expiry |-> t + cacheExpiry]]
  ELSE dir

\* cacheDetailedInfo: the file detail_${id}.json
cacheDetailedInfo(dir, id, detail, t) ==
  [dir EXCEPT ![<<"d","e","t","a","i","l","_">> \o id] =
     [kind |-> "detail", id |-> id, detail |-> detail, expiry |-> t + cacheExpiry]]

\* The value getDetailFromCache returns (Null for null) and the directory it
\* leaves
getDetailFromCache(dir, id, t) ==
  LET cacheFile == <<"d","e","t","a","i","l","_">> \o id
      parsed == dir[cacheFile]
  IN IF parsed.kind \in {"none", "corrupt"} THEN [res |-> Null, dir |-> dir]
     ELSE IF t <= parsed.expiry
          THEN [res |-> IF parsed.kind = "detail" THEN parsed.detail ELSE Null,
                dir |-> dir]
          ELSE [res |-> Null, dir |-> Unlink(dir, cacheFile)]

\* searchOnline: the value built from the two settled sub-queries
searchOnline(sq) ==
  LET english == IF sq["en"].st = "fulfilled" THEN sq["en"].val ELSE <<>>
      spanish == IF sq["es"].st = "fulfilled" THEN sq["es"].val ELSE <<>>
  IN [english |-> english, spanish |-> spanish,
      total |-> Len(english) + Len(spanish), source |-> "online"]

-----------------------------------------------------------------------------
(* UnifiedSearchService: the fusion pipeline *)

\* sourceBoost in tenths: 1.2 for the local ontology, 1.0 for DBpedia. Scores
\* are compared in tenths, which orders them as the floating-point products do.
LocalBoost == 12
DbpediaBoost == 10

\* normalizeName: .substring(0, 20)
NameFoldLen == 20

\* x || 1 for a number
OrOne(x) == IF x = 0 THEN 1 ELSE x

\* (relevance || 1) * (sourceBoost || 1), in tenths
Score(r) == OrOne(r.relevance) * (IF r.sourceBoost = 0 THEN 10 ELSE r.sourceBoost)

\* uniqueResults.sort((a, b) => scoreB - scoreA)
sortByScore(s) == sortDescending(s, [i \in 1..Len(s) |-> Score(s[i])])

unifiedCalculateLocalRelevance(result, queryLower) ==
  OrOne(result.relevance)
  + (IF Truthy(result.name) /\ toLowerCase(result.name) = queryLower THEN 10
     ELSE IF Truthy(result.name) /\ includes(toLowerCase(result.name), queryLower)
     THEN 5 ELSE 0)
  + (IF Truthy(result.description)
        /\ includes(toLowerCase(result.description), queryLower) THEN 3 ELSE 0)
  + (IF Truthy(result.abstract)
        /\ includes(toLowerCase(result.abstract), queryLower) THEN 2 ELSE 0)

calculateDbpediaRelevance(result, queryLower) ==
  OrOne(result.relevance)
  + (IF Truthy(result.label) /\ toLowerCase(result.label) = queryLower THEN 8
     ELSE IF Truthy(result.label) /\ includes(toLowerCase(result.label), queryLower)
     THEN 4 ELSE 0)
  + (IF Truthy(result.description)
        /\ includes(toLowerCase(result.description), queryLower) THEN 2 ELSE 0)
  + (IF Truthy(result.abstract)
        /\ includes(toLowerCase(result.abstract), queryLower) THEN 2 ELSE 0)
  + (IF Truthy(result.thumbnail) THEN 1 ELSE 0)

\* normalizeName without the truncation
normalizeNameWhole(name) == SelectSeq(name, IsLowerAlnum)

normalizeName(name) ==
  LET alnum == SelectSeq(name, IsLowerAlnum)              \* .replace(/[^a-z0-9]/g, "")
      solid == SelectSeq(alnum, LAMBDA c : ~IsSpace(c))   \* .replace(/\s+/g, "")
  IN SubSeq(solid, 1, IF Len(solid) < NameFoldLen THEN Len(solid)
                      ELSE NameFoldLen)

\* removeDuplicates: (result.name || result.label || "").toLowerCase(), folded
DedupName(result) ==
  normalizeName(toLowerCase(IF Truthy(result.name) THEN result.name
                            ELSE result.label))

\* removeDuplicates that never replaces the entry it kept first
RECURSIVE removeDuplicatesKeepFirst(_, _)
removeDuplicatesKeepFirst(results, n) ==
  IF n = 0 THEN [unique |-> <<>>, seenNames |-> {}]
  ELSE
    LET before == removeDuplicatesKeepFirst(results, n - 1)
        normalizedName == DedupName(results[n])
    IN IF normalizedName \notin before.seenNames
       THEN [unique |-> Append(before.unique, results[n]),
             seenNames |-> before.seenNames \cup {normalizedName}]
       ELSE before

\* removeDuplicates after the first n results: the list kept and the names seen
RECURSIVE removeDuplicates(_, _)
removeDuplicates(results, n) ==
  IF n = 0 THEN [unique |-> <<>>, seenNames |-> {}]
  ELSE
    LET before == removeDuplicates(results, n - 1)
        result == results[n]
        normalizedName == DedupName(result)
        unique == before.unique
        found == {i \in 1..Len(unique) : DedupName(unique[i]) = normalizedName}
    IN IF normalizedName \notin before.seenNames
       THEN [unique |-> Append(unique, result),
             seenNames |-> before.seenNames \cup {normalizedName}]
       ELSE IF found = {} THEN before
       ELSE LET existingIndex == CHOOSE i \in found : \A j \in found : i <= j
            IN IF Score(result) > Score(unique[existingIndex])
               THEN [unique |-> [unique EXCEPT ![existingIndex] = result],
                     seenNames |-> before.seenNames]
               ELSE before

\* A candidate as combineAndRankResults pushes it to allResults; pos is its
\* place in allResults, kept for the properties
Pushed(result, relevance, boost, type, pos) ==
  [name |-> result.name, label |-> result.label,
   description |-> result.description, abstract |-> result.abstract,
   thumbnail |-> result.thumbnail, base |-> result.relevance,
   relevance |-> relevance, sourceBoost |-> boost, resultType |-> type,
   pos |-> pos]

\* allResults of combineAndRankResults: the local results, then the English,
\* then the Spanish ones
allResults(localResults, dbpediaResults, query) ==
  LET queryLower == toLowerCase(query)
      nl == Len(localResults)
      ne == Len(dbpediaResults.english)
      ns == Len(dbpediaResults.spanish)
  IN [i \in 1..(nl + ne + ns) |->
        IF i <= nl
        THEN Pushed(localResults[i],
                    unifiedCalculateLocalRelevance(localResults[i], queryLower),
                    LocalBoost, "local", i)
        ELSE LET result == IF i <= nl + ne THEN dbpediaResults.english[i - nl]
                           ELSE dbpediaResults.spanish[i - nl - ne]
             IN Pushed(result, calculateDbpediaRelevance(result, queryLower),
                       DbpediaBoost, "dbpedia", i)]

\* allResults with the boosts exchanged
combineAndRankResultsRemoteFirst(localResults, dbpediaResults, query) ==
  LET all == allResults(localResults, dbpediaResults, query)
      swapped == [i \in 1..Len(all) |->
                    [all[i] EXCEPT !.sourceBoost =
                       IF all[i].resultType = "local" THEN DbpediaBoost
                       ELSE LocalBoost]]
  IN sortByScore(removeDuplicates(swapped, Len(swapped)).unique)

\* combineAndRankResults without the final sort
combineAndRankResultsUnsorted(localResults, dbpediaResults, query) ==
  LET all == SubSeq(allResults(localResults, dbpediaResults, query), 1,
                    Len(localResults) + Len(dbpediaResults.english)
                      + Len(dbpediaResults.spanish))
  IN removeDuplicates(all, Len(all)).unique

combineAndRankResults(localResults, dbpediaResults, query) ==
  LET all == SubSeq(allResults(localResults, dbpediaResults, query), 1,
                    Len(localResults) + Len(dbpediaResults.english)
                      + Len(dbpediaResults.spanish))
      uniqueResults == removeDuplicates(all, Len(all)).unique
  IN sortByScore(uniqueResults)

\* Display names of candidates
\* "Blackjack"
NameBlackjack ==
  <<"B","l","a","c","k","j","a","c","k">>
\* "Black-Jack"
NameBlackJack ==
  <<"B","l","a","c","k","-","J","a","c","k">>
\* "Blackjack (casino game)"
NameCasinoGame ==
  <<"B","l","a","c","k","j","a","c","k"," ","(","c","a","s","i","n","o"," ","g","a","m","e",")">>
\* "Blackjack (casino game show)"
NameGameShow ==
  <<"B","l","a","c","k","j","a","c","k"," ","(","c","a","s","i","n","o"," ","g","a","m","e"," ","s","h","o","w",")">>
\* "Blackjack casino games"
NameCasinoGames ==
  <<"B","l","a","c","k","j","a","c","k"," ","c","a","s","i","n","o"," ","g","a","m","e","s">>

QueryBlackjack == <<"B","l","a","c","k","j","a","c","k">>
QueryCasino == <<"C","a","s","i","n","o">>
Queries == {QueryBlackjack, QueryCasino}

\* A result of the ontology search (searchByText): name and label are equal
LocalCandidate(name, relevance, description) ==
  [name |-> name, label |-> name, description |-> description,
   abstract |-> <<>>, thumbnail |-> <<>>, relevance |-> relevance]

\* A result of the adapter: it has a label and no name
DbpediaCandidate(label, relevance, abstract, thumbnail) ==
  [name |-> <<>>, label |-> label, description |-> abstract,
   abstract |-> abstract, thumbnail |-> thumbnail, relevance |-> relevance]

LocalPool ==
  {LocalCandidate(NameBlackjack, 5, <<>>),
   LocalCandidate(NameCasinoGame, 5, <<>>),
   LocalCandidate(NameBlackJack, 5, <<>>),
   LocalCandidate(NameGameShow, 0, QueryCasino)}

DbpediaPool ==
  {DbpediaCandidate(NameBlackjack, 3, <<>>, <<>>),
   DbpediaCandidate(NameBlackjack, 0, <<>>, <<>>),
   DbpediaCandidate(NameBlackJack, 0, <<>>, <<>>),
   DbpediaCandidate(NameCasinoGame, 5, <<>>, <<>>),
   DbpediaCandidate(NameCasinoGames, 1, <<>>, <<>>),
   DbpediaCandidate(NameCasinoGames, 5, <<>>, <<"t">>)}

\* combineAndRankResults has not run yet
NotCombined == [done |-> FALSE, results |-> <<>>]

\* UnifiedSearchService.search has not returned yet
NoResponse ==
  [done |-> FALSE, raw |-> <<>>, results |-> <<>>,
   stats |-> [total |-> 0, local |-> 0, dbpedia |-> 0, maxRelevance |-> 0]]

\* No input of a fusion
NoFusion ==
  [local |-> <<>>, english |-> <<>>, spanish |-> <<>>, query |-> QueryBlackjack]

-----------------------------------------------------------------------------
(* NLPServiceExtended and NLPService: regular expressions and patterns *)

\* A string literal as a sequence of one-character strings
Chars(s) == SubSeq([i \in 1..Len(s) |-> SubSeq(s, i, i)], 1, Len(s))

\* \w of a regular expression, and the token characters of natural's
\* WordTokenizer
IsWordChar(c) ==
  c \in Range(LowerChars) \cup Range(UpperChars) \cup DigitChars \cup {"_"}

\* A literal of a pattern; wordEnd is set for a literal followed by \b
Lit(s) == [chars |-> Chars(s), wordEnd |-> FALSE]

\* The literal occurs in text at position i
LitAt(text, lit, i) ==
  LET e == i + Len(lit.chars) - 1
  IN /\ e <= Len(text)
     /\ SubSeq(text, i, e) = lit.chars
     /\ lit.wordEnd => (e = Len(text) \/ ~IsWordChar(text[e + 1]))

\* An alternative of a pattern is a sequence of parts separated by .* and a
\* part is a set of literals: parts k.. of alt match in text from position
\* from on, in order and without overlap
RECURSIVE MatchFrom(_, _, _, _)
MatchFrom(text, alt, k, from) ==
  IF k > Len(alt) THEN TRUE
  ELSE \E lit \in alt[k] :
         \E i \in from..(Len(text) - Len(lit.chars) + 1) :
            LitAt(text, lit, i) /\ MatchFrom(text, alt, k + 1, i + Len(lit.chars))

\* RegExp.prototype.test of an unanchored pattern with the flag i: a set of
\* alternatives, the literals of the patterns being lowercase
test(pattern, text) ==
  \E alt \in pattern : MatchFrom(toLowerCase(text), alt, 1, 1)

queryPatterns ==
  <<[intent |-> "probability",
     patterns |-> <<
       {<<{Lit("probabilidad")}>>,
         <<{Lit("chance")}>>,
         <<{Lit("odds")}>>,
         <<{Lit("posibilidad")}>>,
         <<{Lit("chances")}>>,
         <<{Lit("porcentaje")}>>,
         <<{[chars |-> Chars("prob"), wordEnd |-> TRUE]}>>},
       {<<{Lit("cuanto")}, {Lit("ganar")}>>,
         <<{Lit("cuánto")}, {Lit("ganar")}>>,
         <<{Lit("what")}, {Lit("chance")}>>,
         <<{Lit("how likely")}>>},
       {<<{Lit("que tan probable")}>>,
         <<{Lit("qué tan probable")}>>,
         <<{Lit("how probable")}>>},
       {<<{Lit("cuales")}, {Lit("probabilidades")}>>,
         <<{Lit("cuáles")}, {Lit("probabilidades")}>>,
         <<{Lit("what")}, {Lit("odds")}>>}>>],
    [intent |-> "redBlackRoulette",
     patterns |-> <<
       {<<{Lit("probabilidad")}, {Lit("rojo"), Lit("negro"), Lit("red"), Lit("black")}, {Lit("ruleta")}>>},
       {<<{Lit("ruleta")}, {Lit("rojo"), Lit("negro"), Lit("red"), Lit("black")}>>},
       {<<{Lit("rojo"), Lit("negro"), Lit("red"), Lit("black")}, {Lit("ruleta")}>>},
       {<<{Lit("chance"), Lit("chances")}, {Lit("red"), Lit("black"), Lit("rojo"), Lit("negro")}>>}>>],
    [intent |-> "numberRoulette",
     patterns |-> <<
       {<<{Lit("probabilidad")}, {Lit("numero")}, {Lit("ruleta")}>>},
       {<<{Lit("acertar")}, {Lit("numero")}, {Lit("ruleta")}>>},
       {<<{Lit("numero")}, {Lit("especifico")}, {Lit("ruleta")}>>},
       {<<{Lit("single number")}, {Lit("roulette")}>>}>>],
    [intent |-> "evenOdd",
     patterns |-> <<
       {<<{Lit("probabilidad")}, {Lit("par"), Lit("impar"), Lit("even"), Lit("odd")}>>},
       {<<{Lit("par"), Lit("impar"), Lit("even"), Lit("odd")}, {Lit("ruleta")}>>},
       {<<{Lit("apostar")}, {Lit("par"), Lit("impar"), Lit("even"), Lit("odd")}>>}>>],
    [intent |-> "payout",
     patterns |-> <<
       {<<{Lit("pago")}>>,
         <<{Lit("premio")}>>,
         <<{Lit("retorno")}>>,
         <<{Lit("rtp")}>>,
         <<{Lit("ganancia")}>>,
         <<{Lit("cuanto paga")}>>,
         <<{Lit("cuánto paga")}>>,
         <<{Lit("payout")}>>},
       {<<{Lit("cuanto")}, {Lit("devuelve")}>>,
         <<{Lit("cuánto")}, {Lit("devuelve")}>>,
         <<{Lit("how much")}, {Lit("pay")}>>},
       {<<{Lit("retorno")}, {Lit("jugador")}>>,
         <<{Lit("return")}, {Lit("player")}>>}>>],
    [intent |-> "rules",
     patterns |-> <<
       {<<{Lit("reglas")}>>,
         <<{Lit("rules")}>>,
         <<{Lit("como jugar")}>>,
         <<{Lit("cómo jugar")}>>,
         <<{Lit("how to play")}>>},
       {<<{Lit("instrucciones")}>>,
         <<{Lit("instructions")}>>,
         <<{Lit("como funciona")}>>,
         <<{Lit("cómo funciona")}>>,
         <<{Lit("how")}, {Lit("work")}>>},
       {<<{Lit("como se juega")}>>,
         <<{Lit("cómo se juega")}>>,
         <<{Lit("explicar")}>>,
         <<{Lit("explain")}>>}>>],
    [intent |-> "strategy",
     patterns |-> <<
       {<<{Lit("estrategia")}>>,
         <<{Lit("strategy")}>>,
         <<{Lit("táctica")}>>,
         <<{Lit("tactic")}>>,
         <<{Lit("consejo")}>>,
         <<{Lit("tip")}>>,
         <<{Lit("advice")}>>},
       {<<{Lit("como ganar")}>>,
         <<{Lit("cómo ganar")}>>,
         <<{Lit("how to win")}>>,
         <<{Lit("tecnica")}>>,
         <<{Lit("técnica")}>>,
         <<{Lit("technique")}>>},
       {<<{Lit("mejor")}, {Lit("manera")}>>,
         <<{Lit("best way")}>>,
         <<{Lit("forma")}, {Lit("ganar")}>>,
         <<{Lit("way to win")}>>}>>],
    [intent |-> "comparison",
     patterns |-> <<
       {<<{Lit("mejor")}>>,
         <<{Lit("best")}>>,
         <<{Lit("peor")}>>,
         <<{Lit("worst")}>>,
         <<{Lit("comparar")}>>,
         <<{Lit("compare")}>>},
       {<<{Lit("diferencia")}>>,
         <<{Lit("difference")}>>,
         <<{Lit("versus")}>>,
         <<{Lit("vs")}>>,
         <<{Lit("cual es mejor")}>>,
         <<{Lit("cuál es mejor")}>>},
       {<<{Lit("que es mejor")}>>,
         <<{Lit("qué es mejor")}>>,
         <<{Lit("which is better")}>>}>>],
    [intent |-> "houseEdge",
     patterns |-> <<
       {<<{Lit("ventaja casa")}>>,
         <<{Lit("house edge")}>>,
         <<{Lit("margen casa")}>>,
         <<{Lit("ventaja")}, {Lit("casino")}>>},
       {<<{Lit("casino")}, {Lit("ventaja")}>>,
         <<{Lit("edge")}, {Lit("house")}>>}>>],
    [intent |-> "definition",
     patterns |-> <<
       {<<{Lit("que es")}>>,
         <<{Lit("qué es")}>>,
         <<{Lit("what is")}>>,
         <<{Lit("define")}>>,
         <<{Lit("explicar")}>>,
         <<{Lit("explain")}>>},
       {<<{Lit("significado")}>>,
         <<{Lit("meaning")}>>,
         <<{Lit("definicion")}>>,
         <<{Lit("definition")}>>}>>],
    [intent |-> "blackjackNatural",
     patterns |-> <<
       {<<{Lit("probabilidad")}, {Lit("blackjack")}, {Lit("natural")}>>},
       {<<{Lit("chance"), Lit("chances")}, {Lit("21")}, {Lit("first")}>>},
       {<<{Lit("recibir")}, {Lit("blackjack")}>>}>>],
    [intent |-> "insurance",
     patterns |-> <<
       {<<{Lit("seguro")}, {Lit("blackjack")}>>,
         <<{Lit("insurance")}, {Lit("blackjack")}>>},
       {<<{Lit("tomar")}, {Lit("seguro")}>>,
         <<{Lit("take")}, {Lit("insurance")}>>},
       {<<{Lit("conviene")}, {Lit("seguro")}>>,
         <<{Lit("should")}, {Lit("insurance")}>>}>>],
    [intent |-> "pokerHands",
     patterns |-> <<
       {<<{Lit("probabilidad")}, {Lit("escalera"), Lit("color"), Lit("full"), Lit("poker"), Lit("mano")}>>},
       {<<{Lit("chance"), Lit("chances")}, {Lit("flush"), Lit("straight"), Lit("full house"), Lit("pair")}>>},
       {<<{Lit("probabilidad")}, {Lit("ases")}>>,
         <<{Lit("probability")}, {Lit("aces")}>>}>>],
    [intent |-> "specificGame",
     patterns |-> <<
       {<<{Lit("blackjack")}>>,
         <<{Lit("21")}>>,
         <<{Lit("veintiuno")}>>},
       {<<{Lit("ruleta")}>>,
         <<{Lit("roulette")}>>},
       {<<{Lit("poker")}>>,
         <<{Lit("póker")}>>},
       {<<{Lit("dados")}>>,
         <<{Lit("craps")}>>},
       {<<{Lit("baccarat")}>>,
         <<{Lit("bacará")}>>},
       {<<{Lit("tragamonedas")}>>,
         <<{Lit("slot")}>>,
         <<{Lit("slots")}>>}>>]>>

NLPService_patterns ==
  <<[intent |-> "probability",
     patterns |-> <<
       {<<{Lit("probabilidad")}>>,
         <<{Lit("chance")}>>,
         <<{Lit("odds")}>>,
         <<{Lit("posibilidad")}>>}>>],
    [intent |-> "payout",
     patterns |-> <<
       {<<{Lit("pago")}>>,
         <<{Lit("premio")}>>,
         <<{Lit("retorno")}>>,
         <<{Lit("rtp")}>>,
         <<{Lit("ganancia")}>>}>>],
    [intent |-> "rules",
     patterns |-> <<
       {<<{Lit("reglas")}>>,
         <<{Lit("como jugar")}>>,
         <<{Lit("instrucciones")}>>,
         <<{Lit("como funciona")}>>}>>],
    [intent |-> "comparison",
     patterns |-> <<
       {<<{Lit("mejor")}>>,
         <<{Lit("peor")}>>,
         <<{Lit("comparar")}>>,
         <<{Lit("diferencia")}>>,
         <<{Lit("versus")}>>,
         <<{Lit("vs")}>>}>>],
    [intent |-> "list",
     patterns |-> <<
       {<<{Lit("cuales")}>>,
         <<{Lit("lista")}>>,
         <<{Lit("todos")}>>,
         <<{Lit("todas")}>>,
         <<{Lit("tipos")}>>,
         <<{Lit("variantes")}>>}>>],
    [intent |-> "definition",
     patterns |-> <<
       {<<{Lit("que es")}>>,
         <<{Lit("define")}>>,
         <<{Lit("explicar")}>>,
         <<{Lit("significado")}>>}>>]>>

-----------------------------------------------------------------------------
(* NLPServiceExtended and NLPService: the steps of processQuery *)

\* .replace(/\s+/g, " ")
RECURSIVE collapseSpaces(_)
collapseSpaces(s) ==
  IF Len(s) < 2 THEN s
  ELSE IF IsSpace(s[1]) /\ IsSpace(s[2]) THEN collapseSpaces(Tail(s))
  ELSE <<s[1]>> \o collapseSpaces(Tail(s))

\* normalizeText of both services: lowercase, trim, the accented vowels and
\* the n with tilde replaced, the marks removed, the spaces collapsed. The
\* marks are removed after the trim, so a space that followed an opening
\* mark stays.
normalizeText(text) ==
  LET trimmed == trim(toLowerCase(text))
      plain == [i \in 1..Len(trimmed) |->
                  CASE trimmed[i] = "á" -> "a" [] trimmed[i] = "é" -> "e"
                    [] trimmed[i] = "í" -> "i" [] trimmed[i] = "ó" -> "o"
                    [] trimmed[i] = "ú" -> "u" [] trimmed[i] = "ñ" -> "n"
                    [] OTHER -> trimmed[i]]
      kept == SelectSeq(SubSeq(plain, 1, Len(trimmed)),
                        LAMBDA c : c \notin {"¿", "?", "¡", "!"})
  IN collapseSpaces(kept)

\* The language whose words the lowercase text includes more of, Spanish
\* when they are as many
languageOf(spanish, english, text) ==
  LET lowerText == toLowerCase(text)
      score(words) == Cardinality({w \in words : includes(lowerText, w)})
  IN IF score(spanish) >= score(english) THEN "es" ELSE "en"

detectLanguage(text) ==
  languageOf({Chars("cuál"), Chars("cómo"), Chars("qué"), Chars("dónde"),
              Chars("probabilidad"), Chars("del"), Chars("para")},
             {Chars("what"), Chars("how"), Chars("which"),
              Chars("probability"), Chars("the"), Chars("chance")},
             text)

NLPService_detectLanguage(text) ==
  languageOf({Chars("cuál"), Chars("cuáles"), Chars("cómo"), Chars("qué"),
              Chars("dónde"), Chars("cuándo"), Chars("son"), Chars("está"),
              Chars("están"), Chars("las"), Chars("los"), Chars("del"),
              Chars("para")},
             {Chars("what"), Chars("how"), Chars("which"), Chars("where"),
              Chars("when"), Chars("the"), Chars("are"), Chars("is")},
             text)

\* natural.WordTokenizer.tokenize: the text split on /[^A-Za-z0-9_]+/, the
\* empty pieces dropped; cur is the token being read
RECURSIVE wordTokens(_, _)
wordTokens(s, cur) ==
  LET read == IF cur = <<>> THEN <<>> ELSE <<cur>>
  IN IF s = <<>> THEN read
     ELSE IF IsWordChar(Head(s)) THEN wordTokens(Tail(s), Append(cur, Head(s)))
     ELSE read \o wordTokens(Tail(s), <<>>)

\* The two tokenizers are the same WordTokenizer
tokenize(text, language) == wordTokens(text, <<>>)

\* The first entry of the table, in the order of its keys, one of whose
\* patterns matches
firstMatch(table, text) ==
  LET hits == {k \in 1..Len(table) :
                 \E p \in 1..Len(table[k].patterns) :
                    test(table[k].patterns[p], text)}
  IN IF hits = {} THEN "search"
     ELSE table[CHOOSE k \in hits : \A j \in hits : k <= j].intent

detectIntent(text) == firstMatch(queryPatterns, text)

NLPService_detectIntent(text) == firstMatch(NLPService_patterns, toLowerCase(text))

\* The catch block of both services: the fallback, or the TypeError of
\* query.toLowerCase() for a query that is not a string
fallback(query) ==
  IF query.type # "string" THEN [thrown |-> TRUE]
  ELSE [thrown |-> FALSE,
        value |-> [original |-> query, normalized |-> toLowerCase(query.chars),
                   language |-> "es", tokens |-> <<query>>,
                   searchTerms |-> <<query>>]]

\* NLPServiceExtended.processQuery: what it returns or that it throws, and
\* whether its catch block ran. The try block fails at its first step,
\* text.toLowerCase() in detectLanguage, for a query that is not a string.
\* The game, the specific query, the answer and the search terms it derives
\* from the normalized text and the tokens are not part of the modelled
\* result.
processQuery(query) ==
  IF query.type # "string" THEN [caught |-> TRUE, outcome |-> fallback(query)]
  ELSE LET language == detectLanguage(query.chars)
           normalized == normalizeText(query.chars)
       IN [caught |-> FALSE,
           outcome |-> [thrown |-> FALSE,
                        value |-> [original |-> query,
                                   normalized |-> normalized,
                                   language |-> language,
                                   tokens |-> tokenize(normalized, language),
                                   intent |-> detectIntent(normalized)]]]

\* NLPService.processQuery, in the same way; the stems, the keywords and the
\* search terms are not part of the modelled result
NLPService_processQuery(query) ==
  IF query.type # "string" THEN [caught |-> TRUE, outcome |-> fallback(query)]
  ELSE LET language == NLPService_detectLanguage(query.chars)
           normalized == normalizeText(query.chars)
       IN [caught |-> FALSE,
           outcome |-> [thrown |-> FALSE,
                        value |-> [original |-> query,
                                   normalized |-> normalized,
                                   language |-> language,
                                   tokens |-> tokenize(normalized, language),
                                   intent |-> NLPService_detectIntent(normalized)]]]

RECURSIVE join(_)
join(words) ==
  IF words = <<>> THEN <<>>
  ELSE IF Len(words) = 1 THEN words[1]
  ELSE words[1] \o <<" ">> \o join(Tail(words))

\* The texts of at most MaxWords words
Texts ==
  LET WordPool ==
        {Chars("pago"), Chars("rojo"), Chars("ruleta"), Chars("probabilidad"),
         Chars("lista"), Chars("reglas"), Chars("¿Qué"), Chars("es"),
         Chars("Blackjack?"), Chars("what"), Chars("chance"), Chars("mejor")}
  IN UNION {{join(ws) : ws \in [1..n -> WordPool]} : n \in 0..MaxWords}

\* The values req.query.query can hold: a string, or an array for a repeated
\* parameter (?query=pago&query=rojo)
Queries_NLU ==
  {[type |-> "string", chars |-> t] : t \in Texts}
    \cup {[type |-> "array", items |-> <<Chars("pago"), w>>] :
             w \in {Chars("rojo"), Chars("ruleta"), Chars("lista")}}

NoQuery == [type |-> "string", chars |-> <<>>]

NotProcessed == [done |-> FALSE, service |-> "none", caught |-> FALSE,
                 outcome |-> [thrown |-> FALSE]]

-----------------------------------------------------------------------------
(* OntologyService: the OWL file, the store and the query operations *)

\* A statement of the graph; subjects are named by their local name
St(s, p, o) == [s |-> s, p |-> p, o |-> o]

\* Two versions of the ontology, in the order of their files
GraphA ==
  <<St("Juego", "rdf:type", "owl:Class"),
    St("tieneRTP", "rdf:type", "owl:DatatypeProperty"),
    St("Blackjack", "rdf:type", "Juego")>>

GraphB ==
  GraphA \o <<St("Apuesta", "rdf:type", "owl:Class"),
              St("seApuestaEn", "rdf:type", "owl:ObjectProperty"),
              St("Ruleta", "rdf:type", "Juego")>>

\* The file at OWL_FILE_PATH: absent, or RDF/XML that holds the statements
\* and is malformed from statement errorAt on (0: well-formed)
MissingFile == [kind |-> "missing", statements |-> <<>>, errorAt |-> 0]

OwlFiles ==
  {MissingFile,
   [kind |-> "file", statements |-> GraphA, errorAt |-> 0],
   [kind |-> "file", statements |-> GraphB, errorAt |-> 0],
   [kind |-> "file", statements |-> GraphB, errorAt |-> 5]}

\* $rdf.parse for application/rdf+xml: it runs synchronously, adds the
\* statements to the store as it reads them and throws at the malformed one
parse(owlContent) ==
  IF owlContent.errorAt = 0
  THEN [thrown |-> FALSE, statements |-> Range(owlContent.statements)]
  ELSE [thrown |-> TRUE,
        statements |-> Range(SubSeq(owlContent.statements, 1, owlContent.errorAt - 1))]

\* loadOntology whose catch block leaves the flag as it was
loadOntologyKeepsFlag(file, statements, wasLoaded) ==
  IF file.kind = "missing"
  THEN [thrown |-> TRUE, store |-> statements, loaded |-> wasLoaded]
  ELSE LET parsed == parse(file)
       IN [thrown |-> parsed.thrown, store |-> parsed.statements,
           loaded |-> wasLoaded]

\* loadOntology up to its await, or through its catch block: the store and
\* the flag it leaves and whether it threw. A missing file leaves the store.
loadOntology(file, statements, wasLoaded) ==
  IF file.kind = "missing"
  THEN [thrown |-> TRUE, store |-> statements, loaded |-> FALSE]
  ELSE LET parsed == parse(file)
       IN [thrown |-> parsed.thrown, store |-> parsed.statements,
           loaded |-> IF parsed.thrown THEN FALSE ELSE wasLoaded]

Thrown(message) == [thrown |-> TRUE, error |-> message, value |-> {}]
Returned(value) == [thrown |-> FALSE, error |-> "", value |-> value]

\* store.each(null, rdf:type, type)
each(statements, type) ==
  {st.s : st \in {x \in statements : x.p = "rdf:type" /\ x.o = type}}

getClasses(statements, isLoaded) ==
  IF ~isLoaded
  THEN Thrown("Ontología no cargada. Llame a loadOntology() primero.")
  ELSE Returned(each(statements, "owl:Class"))

getInstancesOfClass(statements, isLoaded, className) ==
  IF ~isLoaded THEN Thrown("Ontología no cargada")
  ELSE Returned(each(statements, className))

getPropertiesUnguarded(statements, isLoaded) ==
  Returned(each(statements, "owl:ObjectProperty")
             \cup each(statements, "owl:DatatypeProperty"))

getProperties(statements, isLoaded) ==
  IF ~isLoaded THEN Thrown("Ontología no cargada")
  ELSE Returned(each(statements, "owl:ObjectProperty")
                  \cup each(statements, "owl:DatatypeProperty"))

\* The counts of getOntologyStats, as a set of named numbers
getOntologyStats(statements, isLoaded) ==
  IF ~isLoaded THEN Thrown("Ontología no cargada")
  ELSE Returned({<<"totalClasses",
                   Cardinality(getClasses(statements, isLoaded).value)>>,
                 <<"totalProperties",
                   Cardinality(getProperties(statements, isLoaded).value)>>,
                 <<"totalStatements", Cardinality(statements)>>})

\* searchByText, for the search terms processQuery made of the text: the
\* subjects of the type statements whose lowercase name includes a term.
\* The ranking and the display filters of the results are not modelled.
searchByText(statements, isLoaded, searchTerms) ==
  IF ~isLoaded THEN Thrown("Ontología no cargada")
  ELSE Returned({st.s : st \in
         {x \in statements :
            /\ x.p = "rdf:type"
            /\ \E term \in searchTerms :
                 includes(toLowerCase(Chars(x.s)), toLowerCase(term))}})

\* UnifiedSearchService.searchLocal: an error of searchByText gives no result
UnifiedSearchService_searchLocal(statements, isLoaded, searchTerms) ==
  LET results == searchByText(statements, isLoaded, searchTerms)
  IN IF results.thrown THEN {} ELSE results.value

\* The search terms of the requests
SearchTerms == {{Chars("blackjack")}, {Chars("ruleta"), Chars("roulette")}}
ClassNames == {"Juego", "Apuesta"}

NoAnswerYet ==
  [done |-> FALSE, handler |-> "none", op |-> "none", loaded |-> FALSE,
   outcome |-> Returned({}), data |-> {}, status |-> 0, success |-> FALSE]

-----------------------------------------------------------------------------
(* The request in flight *)

\* Times stay within TLC's integers
MaxNow == 2 * cacheExpiry + 2
TickSteps == {1, cacheExpiry}

\* Raw query-string parameters of GET /api/unified/search
RawQueries == Terms \cup {<<>>}
RawModes == {"", "local", "dbpedia", "hybrid"}
RawFlags == {"true", "false"}

NoRequest ==
  [query |-> <<>>, mode |-> "", includeDbpedia |-> FALSE,
   preferOffline |-> FALSE, local |-> FALSE,
   adapter |-> FALSE, status |-> 0, success |-> FALSE]

\* ResponseHandler.success: HTTP 200 with success: true
success(request) == [request EXCEPT !.status = 200, !.success = TRUE]

\* ResponseHandler.badRequest: HTTP 400 with success: false
error(request) == [request EXCEPT !.status = 500, !.success = FALSE]
badRequest(request) == [request EXCEPT !.status = 400, !.success = FALSE]

\* A test against undefined alone, which the empty string passes
queryUndefined(query) == FALSE

\* unifiedSearch (controller): !query. A parameter that is missing reads as
\* undefined and one that is empty as "": both are falsy, and both are <<>> here.
queryMissing(query) == ~Truthy(query)

\* Before the first searchWithFallback call has returned
NoSearch ==
  [term |-> <<>>, result |-> getEmptyResult, raised |-> FALSE, wrote |-> FALSE,
   trace |-> <<>>, remote |-> 0, doneAt |-> 0, validUntil |-> 0,
   dataset |-> Null, again |-> FALSE]

IdleSubq == [l \in Langs |-> [st |-> "none", val |-> <<>>]]

Settled(sq) == \A l \in Langs : sq[l].st \in {"fulfilled", "rejected"}

\* The earliest expiry among the cache entries usable at time t
ValidUntil(dir, t) ==
  LET expiries == {dir[f].expiry :
                     f \in {g \in FileNames :
                              dir[g].kind = "entry" /\ t <= dir[g].expiry}}
  IN IF expiries = {} THEN MaxNow + cacheExpiry
     ELSE CHOOSE e \in expiries : \A x \in expiries : e <= x

\* The two cacheResults calls in flight at once
Writers == {1, 2}
NotWriting == [st |-> "idle", data |-> <<>>]

\* Before searchByText is called
NoTextSearch == [statements |-> <<>>, searchTerms |-> <<>>]
NotSearched == [done |-> FALSE, results |-> <<>>]

\* A cache entry left by an earlier run of the service for the term TermBjMark,
\* in its last millisecond
OldEntry ==
  [kind |-> "entry", searchTerm |-> TermBjMark,
   results |-> [english |-> parseOnlineResults(
                              [kind |-> "sparql", bindings |-> <<BindingBj>>], "en"),
                spanish |-> <<>>, total |-> 1, source |-> "online"],
   expiry |-> 0]

\* The detail cacheDetailedInfo was given for the entry "bj"
DetailBj == [uri |-> "ds:bj", source |-> "online-detailed"]

\* What cacheDir holds when the service starts: that entry, two files that are
\* not JSON, one of them under the key of Term21, and the detail file that
\* cacheDetailedInfo has just written
InitialDir ==
  cacheDetailedInfo(
    [EmptyDir EXCEPT ![<<"b","j">>] = OldEntry, ![<<"x">>] = CorruptFile,
                     ![<<"2","1">>] = CorruptFile],
    <<"b","j">>, DetailBj, 0)

\* unifiedSearch (controller): mode: mode || "hybrid"
effectiveMode(rawMode) == IF rawMode = "" THEN "hybrid" ELSE rawMode

\* unifiedSearch (controller): includeDbpedia: includeDbpedia === "true",
\* preferOffline: preferOffline === "true"
effectiveFlag(rawFlag) == rawFlag = "true"

\* UnifiedSearchService.search: whether the ontology search runs
runsLocal(mode) == mode = "local" \/ mode = "hybrid"

\* The gate without its mode test
runsDbpediaByFlag(includeDbpedia, mode) == includeDbpedia

\* UnifiedSearchService.search: whether searchWithFallback is invoked
runsDbpedia(includeDbpedia, mode) ==
  includeDbpedia /\ (mode = "dbpedia" \/ mode = "hybrid")

\* searchWithFallback, inner catch: the online search threw or timed out
onOnlineError == [isOnline |-> FALSE, result |-> getEmptyResult, raised |-> FALSE]

\* The sub-queries still awaited; the settled ones are forgotten
Unsettled(sq) ==
  [l \in Langs |-> IF sq[l].st \in {"headers", "body"} THEN sq[l]
                   ELSE [st |-> "none", val |-> <<>>]]

\* Whether a call for `term` that returns now repeats the call before it on
\* unchanged ground: that call was for the same term and found something, what
\* it fetched was written to the cache, the dataset is the one it searched, and
\* no cache entry it could use has expired since.
Repeats(term) ==
  /\ last.term = term
  /\ last.result.total > 0
  /\ last.result.source = "online" => last.wrote
  /\ last.dataset = localDataset
  /\ now <= last.validUntil

\* searchWithFallback returns `result` to UnifiedSearchService.search, which
\* answers the request; dir is the cache directory it leaves, sq the
\* sub-queries at that time. `last` keeps the call for the properties.
Return(request, result, raised, wrote, tr, dir, sq, fetches) ==
  /\ last' = [term |-> request.query, result |-> result, raised |-> raised,
              wrote |-> wrote, trace |-> tr, remote |-> fetches,
              doneAt |-> now, validUntil |-> ValidUntil(dir, now),
              dataset |-> localDataset, again |-> Repeats(request.query)]
  /\ trace' = <<>>
  /\ cacheDir' = dir
  /\ req' = success([request EXCEPT !.preferOffline = FALSE])
  /\ subq' = Unsettled(sq)
  /\ pc' = "idle"

AdapterIdle ==
  /\ localDataset = Null
  /\ cacheDir = InitialDir
  /\ isOnline = TRUE
  /\ now = 0
  /\ ticks = 0
  /\ pc = "idle"
  /\ req = NoRequest
  /\ trace = <<>>
  /\ subq = IdleSubq
  /\ pending = Null
  /\ remote = 0
  /\ last = NoSearch
  /\ searches = 0

FusionIdle ==
  /\ fin = NoFusion
  /\ fout = NotCombined
  /\ fres = NoResponse

NluIdle ==
  /\ nin = NoQuery
  /\ nout = NotProcessed

OntologyIdle ==
  /\ owlFile = MissingFile
  /\ store = {}
  /\ loaded = FALSE
  /\ started = FALSE
  /\ microtasks = <<>>
  /\ ores = NoAnswerYet
  /\ oreqs = 0

WriterIdle ==
  /\ wfile = NoFile
  /\ writers = [w \in Writers |-> NotWriting]

TextIdle ==
  /\ tin = NoTextSearch
  /\ tout = NotSearched

Init ==
  /\ AdapterIdle
  /\ FusionIdle
  /\ NluIdle
  /\ OntologyIdle
  /\ WriterIdle
  /\ TextIdle

\* init: loadLocalDataset reads the bundled dataset; an unreadable file leaves
\* an empty dataset. It runs once, when the application starts, and may finish
\* after the first requests were served. A request reads the dataset only in
\* its first, synchronous stage, so a load that ends while a request is in
\* flight acts as one that ends right after it.
InitService(file) ==
  /\ localDataset = Null
  /\ pc = "idle"
  /\ localDataset' = [kind |-> "dataset",
                      entries |-> IF file.kind = "json" THEN file.entries ELSE <<>>]
  /\ UNCHANGED <<cacheDir, isOnline, now, ticks, pc, req, trace, subq, pending,
                 remote, last, searches>>
  /\ UNCHANGED <<fusionVars, nluVars, ontologyVars, writerVars, textVars>>

Tick(d) ==
  /\ ticks < MaxTicks
  /\ now + d <= MaxNow
  /\ now' = now + d
  /\ ticks' = ticks + 1
  /\ UNCHANGED <<localDataset, cacheDir, isOnline, pc, req, trace, subq,
                 pending, remote, last, searches>>
  /\ UNCHANGED <<fusionVars, nluVars, ontologyVars, writerVars, textVars>>

\* GET /api/unified/search: the controller, UnifiedSearchService.search and,
\* when the mode and the flag allow it, searchWithFallback up to its first file
\* read: stage 1, the local dataset, needs no I/O.
\* req.preferOffline is the option as searchWithFallback holds it (line 67):
\* it is set while that call is in flight.
UnifiedSearch(query, rawMode, rawFlag, rawPrefer) ==
  /\ pc = "idle"
  /\ searches < MaxSearches
  /\ searches' = searches + 1
  /\ LET mode == effectiveMode(rawMode)
         includeDbpedia == effectiveFlag(rawFlag)
         request == [query |-> query, mode |-> mode,
                     includeDbpedia |-> includeDbpedia,
                     preferOffline |-> FALSE, local |-> FALSE,
                     adapter |-> FALSE, status |-> 0, success |-> FALSE]
         r == searchLocal(localDataset, query)
         tr == <<[stage |-> "local-dataset", total |-> r.total]>>
     IN IF queryMissing(query)
        THEN /\ req' = badRequest(request)
             /\ UNCHANGED <<pc, trace, remote, last, cacheDir, subq>>
        ELSE IF ~runsDbpedia(includeDbpedia, mode)
        THEN /\ req' = success([request EXCEPT !.local = runsLocal(mode)])
             /\ UNCHANGED <<pc, trace, remote, last, cacheDir, subq>>
        ELSE /\ remote' = 0
             /\ IF r.total > 0
                THEN Return([request EXCEPT !.local = runsLocal(mode),
                                            !.adapter = TRUE],
                            r, FALSE, FALSE, tr, cacheDir, subq, 0)
                ELSE /\ req' = [request EXCEPT
                                 !.local = runsLocal(mode), !.adapter = TRUE,
                                 !.preferOffline = effectiveFlag(rawPrefer)]
                     /\ pc' = "cacheExact"
                     /\ trace' = tr
                     /\ UNCHANGED <<last, cacheDir, subq>>
  /\ UNCHANGED <<localDataset, isOnline, now, ticks, pending>>
  /\ UNCHANGED <<fusionVars, nluVars, ontologyVars, writerVars, textVars>>

\* searchFromCache that does not return on an exact hit
StageCacheExactFallsThrough ==
  /\ pc = "cacheExact"
  /\ LET x == getExactCacheResults(cacheDir, req.query, now)
         hit == x.res # Null /\ x.res.total > 0
     IN /\ pc' = "cacheFuzzy"
        /\ trace' = Append(trace, [stage |-> "cache-exact",
                                   total |-> IF hit THEN x.res.total ELSE 0])
        /\ cacheDir' = x.dir
  /\ UNCHANGED <<localDataset, isOnline, now, ticks, pending, remote, searches,
                 req, last, subq>>
  /\ UNCHANGED <<fusionVars, nluVars, ontologyVars, writerVars, textVars>>

\* searchFromCache, first half: getExactCacheResults
StageCacheExact ==
  /\ pc = "cacheExact"
  /\ LET x == getExactCacheResults(cacheDir, req.query, now)
         hit == x.res # Null /\ x.res.total > 0
         tr == Append(trace, [stage |-> "cache-exact",
                              total |-> IF hit THEN x.res.total ELSE 0])
     IN IF hit
        THEN Return(req, WithSource(x.res, "cache-exact"), FALSE, FALSE, tr, x.dir,
                    subq, remote)
        ELSE /\ pc' = "cacheFuzzy"
             /\ trace' = tr
             /\ cacheDir' = x.dir
             /\ UNCHANGED <<req, last, subq>>
  /\ UNCHANGED <<localDataset, isOnline, now, ticks, pending,
                 remote, searches>>
  /\ UNCHANGED <<fusionVars, nluVars, ontologyVars, writerVars, textVars>>

\* searchFromCache, second half: searchSimilarInCache. On a miss
\* searchOnlineWithTimeout follows at once: searchOnline issues both fetches,
\* each with its 6 s abort timer, then the 8 s timer of the race is set.
StageCacheFuzzy ==
  /\ pc = "cacheFuzzy"
  /\ LET x == searchSimilarInCache(cacheDir, req.query, now)
         tr == Append(trace, [stage |-> "cache-fuzzy", total |-> x.res.total])
     IN IF x.res.total > 0
        THEN /\ Return(req, WithSource(x.res, "cache-fuzzy"), FALSE, FALSE, tr,
                       x.dir, subq, remote)
             /\ UNCHANGED remote
        ELSE /\ pc' = "online"
             /\ trace' = tr
             /\ cacheDir' = x.dir
             /\ subq' = [l \in Langs |-> [st |-> "headers", val |-> <<>>]]
             /\ remote' = remote + Cardinality(Langs)
             /\ UNCHANGED <<req, last>>
  /\ UNCHANGED <<localDataset, isOnline, now, ticks, pending, searches>>
  /\ UNCHANGED <<fusionVars, nluVars, ontologyVars, writerVars, textVars>>

\* A late response whose results are written to the cache all the same
StillAwaitedCachesLate(sq) ==
  /\ subq' = IF pc = "online" THEN sq ELSE Unsettled(sq)
  /\ cacheDir' = IF pc # "online" /\ searchOnline(sq).total > 0
                 THEN cacheResults(cacheDir, last.term, searchOnline(sq), now, TRUE)
                 ELSE cacheDir
  /\ UNCHANGED <<isOnline, pending, pc, trace, req, last>>
  /\ UNCHANGED <<localDataset, now, ticks, remote, searches>>
  /\ UNCHANGED <<fusionVars, nluVars, ontologyVars, writerVars, textVars>>

\* A searchInLanguage call moved to sq[l] and searchWithFallback is not to go
\* on: either Promise.allSettled still waits for the other call, or the race
\* of searchOnlineWithTimeout was decided by its timer and nothing holds the
\* value of searchOnline any more
StillAwaited(sq) ==
  /\ subq' = IF pc = "online" THEN sq ELSE Unsettled(sq)
  /\ UNCHANGED <<isOnline, pending, pc, trace, cacheDir, req, last>>
  /\ UNCHANGED <<localDataset, now, ticks, remote, searches>>
  /\ UNCHANGED <<fusionVars, nluVars, ontologyVars, writerVars, textVars>>

\* A searchInLanguage call moved to sq[l]. When that settles Promise.allSettled
\* while the race is undecided, searchWithFallback goes on with the value of
\* searchOnline. Once the race is decided nothing holds the value of a call
\* that settles: it is dropped.
AfterSubquery(sq) ==
  IF pc = "online" /\ Settled(sq)
  THEN LET onlineResults == searchOnline(sq)
           tr == Append(trace, [stage |-> "online",
                                total |-> onlineResults.total])
       IN /\ IF onlineResults.total > 0
             THEN /\ isOnline' = TRUE
                  /\ pending' = onlineResults
                  /\ pc' = "caching"
                  /\ trace' = tr
                  /\ subq' = sq
                  /\ UNCHANGED <<cacheDir, req, last>>
             ELSE /\ Return(req, getEmptyResult, FALSE, FALSE, tr, cacheDir, sq, remote)
                  /\ UNCHANGED <<isOnline, pending>>
          /\ UNCHANGED <<localDataset, now, ticks, remote, searches>>
          /\ UNCHANGED <<fusionVars, nluVars, ontologyVars, writerVars, textVars>>
  ELSE StillAwaited(sq)

\* searchInLanguage: fetch resolves with the response headers; the abort timer
\* is cleared, and a non-2xx status throws
HeadersArrive(l, ok) ==
  /\ subq[l].st = "headers"
  /\ AfterSubquery([subq EXCEPT ![l].st = IF ok THEN "body" ELSE "rejected"])

\* searchInLanguage: fetch rejects (no connection)
FetchFails(l) ==
  /\ subq[l].st = "headers"
  /\ AfterSubquery([subq EXCEPT ![l].st = "rejected"])

\* searchInLanguage: the 6 s timer aborts the fetch
AbortFires(l) ==
  /\ subq[l].st = "headers"
  /\ AfterSubquery([subq EXCEPT ![l].st = "rejected"])

\* searchInLanguage: response.json() resolves and the results are parsed
BodyArrives(l, data) ==
  /\ subq[l].st = "body"
  /\ AfterSubquery([subq EXCEPT ![l] = [st |-> "fulfilled",
                                        val |-> parseOnlineResults(data, l)]])

\* searchInLanguage: response.json() rejects
BodyFails(l) ==
  /\ subq[l].st = "body"
  /\ AfterSubquery([subq EXCEPT ![l].st = "rejected"])

\* searchOnlineWithTimeout without its timer
TimeoutNeverFires == FALSE /\ UNCHANGED vars

\* searchOnlineWithTimeout: the 8 s timer rejects the race. It was set after the
\* 6 s timers, so it fires only when none of them is still armed.
Timeout8Fires ==
  /\ pc = "online"
  /\ \A l \in Langs : subq[l].st # "headers"
  /\ isOnline' = onOnlineError.isOnline
  /\ Return(req, onOnlineError.result, onOnlineError.raised, FALSE,
            Append(trace, [stage |-> "online", total |-> 0]), cacheDir, subq,
            remote)
  /\ UNCHANGED <<localDataset, now, ticks, pending, remote, searches>>
  /\ UNCHANGED <<fusionVars, nluVars, ontologyVars, writerVars, textVars>>

\* searchWithFallback: await cacheResults, then return the online results
CacheWrite(written) ==
  /\ pc = "caching"
  /\ pending' = Null
  /\ Return(req, pending, FALSE, written, trace,
            cacheResults(cacheDir, req.query, pending, now, written), subq,
            remote)
  /\ UNCHANGED <<localDataset, isOnline, now, ticks, remote, searches>>
  /\ UNCHANGED <<fusionVars, nluVars, ontologyVars, writerVars, textVars>>

\* The clock, the load of the dataset and the steps of a search in flight
AdapterSteps ==
  \/ \E file \in DatasetFiles : InitService(file)
  \/ \E d \in TickSteps : Tick(d)
  \/ StageCacheExact
  \/ StageCacheFuzzy
  \/ \E l \in Langs, ok \in BOOLEAN : HeadersArrive(l, ok)
  \/ \E l \in Langs : FetchFails(l)
  \/ \E l \in Langs : AbortFires(l)
  \/ \E l \in Langs, data \in BodyData : BodyArrives(l, data)
  \/ \E l \in Langs : BodyFails(l)
  \/ Timeout8Fires
  \/ CacheWrite(TRUE)
  \/ CacheWrite(FALSE)

\* Requests that do not set preferOffline
AdapterNext ==
  \/ \E q \in RawQueries, m \in RawModes, f \in RawFlags :
       UnifiedSearch(q, m, f, "false")
  \/ AdapterSteps

Next == AdapterNext

\* Requests with preferOffline set or not
PreferOfflineNext ==
  \/ \E q \in RawQueries, m \in RawModes, f \in RawFlags, o \in RawFlags :
       UnifiedSearch(q, m, f, o)
  \/ AdapterSteps

PreferOfflineSpec == Init /\ [][PreferOfflineNext]_vars

Spec == Init /\ [][Next]_vars

\* The positions of a request
Positions == {"idle", "cacheExact", "cacheFuzzy", "online", "caching"}

\* The request leaves position p. At "cacheExact", "cacheFuzzy" and "caching"
\* the steps that do so are StageCacheExact, StageCacheFuzzy and CacheWrite,
\* which are enabled whenever the request is there.
Leaves(p) == pc = p /\ pc' \in Positions \ {p}

\* The scheduling the runtime guarantees: file operations complete and armed
\* timers fire. Nothing is assumed of the remote endpoints.
Fairness ==
  /\ \A p \in {"cacheExact", "cacheFuzzy", "caching"} : WF_pc(Leaves(p))
  /\ \A l \in Langs : WF_vars(AbortFires(l))
  /\ WF_vars(Timeout8Fires)

FairSpec == Init /\ [][Next]_vars /\ Fairness

\* Raw maxResults parameters of GET /api/unified/search; <<>> when absent
RawMaxResults ==
  {<<>>, <<"0">>, <<"1">>, <<"2">>, <<"-","1">>, <<"2","x">>, <<"x">>}

\* The number a decimal digit stands for
DigitValue(c) ==
  CASE c = "0" -> 0 [] c = "1" -> 1 [] c = "2" -> 2 [] c = "3" -> 3
    [] c = "4" -> 4 [] c = "5" -> 5 [] c = "6" -> 6 [] c = "7" -> 7
    [] c = "8" -> 8 [] c = "9" -> 9

\* The number the digits of s stand for
RECURSIVE DigitsValue(_)
DigitsValue(s) ==
  IF s = <<>> THEN 0
  ELSE 10 * DigitsValue(SubSeq(s, 1, Len(s) - 1)) + DigitValue(s[Len(s)])

\* parseInt on a string or undefined: leading blanks are skipped, a sign is
\* read, then decimal digits up to the first other character; NaN when there
\* is no digit
parseInt(raw) ==
  LET t == trim(raw)
      signed == t # <<>> /\ t[1] \in {"-", "+"}
      body == IF signed THEN Tail(t) ELSE t
      stop == IF \E i \in 1..Len(body) : body[i] \notin DigitChars
              THEN CHOOSE i \in 1..Len(body) :
                     /\ body[i] \notin DigitChars
                     /\ \A j \in 1..(i - 1) : body[j] \in DigitChars
              ELSE Len(body) + 1
      digits == SubSeq(body, 1, stop - 1)
  IN IF digits = <<>> THEN [nan |-> TRUE, value |-> 0]
     ELSE [nan |-> FALSE,
           value |-> IF signed /\ t[1] = "-" THEN 0 - DigitsValue(digits)
                     ELSE DigitsValue(digits)]

\* The default of maxResults
DefaultMaxResults == 20

\* unifiedSearch (controller): maxResults: parseInt(maxResults) || 20
maxResultsOption(raw) ==
  LET n == parseInt(raw)
  IN IF n.nan \/ n.value = 0 THEN DefaultMaxResults ELSE n.value

\* Array.prototype.slice(0, end): a negative end counts from the end
slice(s, end) ==
  LET to == IF end < 0 THEN Len(s) + end
            ELSE IF end > Len(s) THEN Len(s) ELSE end
  IN IF to <= 0 THEN <<>> ELSE SubSeq(s, 1, to)

\* The inputs of the fusion: at most MaxCandidates candidates in all
FusionInputs ==
  UNION {UNION {UNION {
    {[local |-> l, english |-> e, spanish |-> sp, query |-> q] :
       l \in [1..a -> LocalPool], e \in [1..b -> DbpediaPool],
       sp \in [1..c -> DbpediaPool], q \in Queries} :
    c \in 0..(MaxCandidates - a - b)} :
    b \in 0..(MaxCandidates - a)} :
    a \in 0..MaxCandidates}

\* The two searches of UnifiedSearchService.search have returned
FusionInit ==
  /\ AdapterIdle
  /\ NluIdle
  /\ OntologyIdle
  /\ WriterIdle
  /\ TextIdle
  /\ fin \in FusionInputs
  /\ fout = NotCombined
  /\ fres = NoResponse

\* UnifiedSearchService.search, fusion step: combineAndRankResults applied to
\* the results of the two searches
Combine ==
  /\ ~fout.done
  /\ fout' = [done |-> TRUE,
              results |-> combineAndRankResults(
                            fin.local,
                            [english |-> fin.english, spanish |-> fin.spanish],
                            fin.query)]
  /\ UNCHANGED <<fin, fres>>
  /\ UNCHANGED <<adapterVars, nluVars, ontologyVars, writerVars, textVars>>

\* UnifiedSearchService.search, after the fusion: the ranked list is cut to
\* maxResults and the statistics are computed. The adapter's total is the
\* number of its English and Spanish results (searchOnline,
\* searchSimilarInCache; searchLocal too, dataset entries being in one of the
\* two languages).
Respond(raw) ==
  /\ fout.done
  /\ ~fres.done
  /\ LET maxResults == maxResultsOption(raw)
         finalResults == slice(fout.results, maxResults)
     IN fres' = [done |-> TRUE, raw |-> raw, results |-> finalResults,
                 stats |-> [total |-> Len(finalResults),
                            local |-> Len(fin.local),
                            dbpedia |-> Len(fin.english) + Len(fin.spanish),
                            maxRelevance |->
                              IF Len(finalResults) > 0
                              THEN finalResults[1].relevance ELSE 0]]
  /\ UNCHANGED <<fin, fout>>
  /\ UNCHANGED <<adapterVars, nluVars, ontologyVars, writerVars, textVars>>

FusionNext == Combine

FusionSpec == FusionInit /\ [][FusionNext]_vars

\* The fusion followed by the rest of UnifiedSearchService.search
ResponseNext ==
  \/ Combine
  \/ \E raw \in RawMaxResults : Respond(raw)

ResponseSpec == FusionInit /\ [][ResponseNext]_vars

-----------------------------------------------------------------------------
(* NLPServiceExtended and NLPService: processQuery applied to a query *)

NluInit ==
  /\ AdapterIdle
  /\ FusionIdle
  /\ OntologyIdle
  /\ WriterIdle
  /\ TextIdle
  /\ nin \in Queries_NLU
  /\ nout = NotProcessed

\* NLPServiceExtended.processQuery(nin)
ProcessQuery ==
  /\ ~nout.done
  /\ LET result == processQuery(nin)
     IN nout' = [done |-> TRUE, service |-> "NLPServiceExtended",
                 caught |-> result.caught, outcome |-> result.outcome]
  /\ UNCHANGED nin
  /\ UNCHANGED <<adapterVars, fusionVars, ontologyVars, writerVars, textVars>>

\* NLPService.processQuery(nin)
NLPService_ProcessQuery ==
  /\ ~nout.done
  /\ LET result == NLPService_processQuery(nin)
     IN nout' = [done |-> TRUE, service |-> "NLPService",
                 caught |-> result.caught, outcome |-> result.outcome]
  /\ UNCHANGED nin
  /\ UNCHANGED <<adapterVars, fusionVars, ontologyVars, writerVars, textVars>>

NluNext ==
  \/ ProcessQuery
  \/ NLPService_ProcessQuery

NluSpec == NluInit /\ [][NluNext]_vars

-----------------------------------------------------------------------------
(* OntologyService behind its controllers *)

OntologyInit ==
  /\ AdapterIdle
  /\ FusionIdle
  /\ NluIdle
  /\ WriterIdle
  /\ TextIdle
  /\ owlFile \in OwlFiles
  /\ store = {}
  /\ loaded = FALSE
  /\ started = FALSE
  /\ microtasks = <<>>
  /\ ores = NoAnswerYet
  /\ oreqs = 0

\* ResponseHandler.success for a returned value, ResponseHandler.error with
\* status 500 for a thrown error; op is the operation of the service that
\* returned or threw, isLoaded the flag when it was called
respond(handler, op, isLoaded, outcome) ==
  LET answer == [done |-> TRUE, handler |-> handler, op |-> op,
                 loaded |-> isLoaded,
                 outcome |-> outcome, data |-> outcome.value,
                 status |-> 0, success |-> FALSE]
  IN IF outcome.thrown THEN error(answer) ELSE success(answer)

\* A continuation after an await runs before the next request is handled
MacrotaskStartsAnyTime == started
MacrotaskMayStart == started /\ microtasks = <<>>

\* A handler calls loadOntology and awaits it: the call runs up to its own
\* await; when it throws, the handler answers with the error
AwaitLoad(caller, arg) ==
  LET load == loadOntology(owlFile, store, loaded)
  IN /\ store' = load.store
     /\ loaded' = load.loaded
     /\ IF load.thrown
        THEN /\ ores' = respond(caller, "loadOntology", load.loaded,
                                Thrown(IF owlFile.kind = "missing"
                                       THEN "Archivo OWL no encontrado"
                                       ELSE "parse error"))
             /\ UNCHANGED microtasks
        ELSE /\ microtasks' = Append(microtasks, [caller |-> caller, arg |-> arg])
             /\ UNCHANGED ores

\* app.js: loadOntology is called when the application starts; its error is
\* logged
StartupLoad ==
  /\ ~started
  /\ started' = TRUE
  /\ LET load == loadOntology(owlFile, store, loaded)
     IN /\ store' = load.store
        /\ loaded' = load.loaded
        /\ microtasks' = IF load.thrown THEN microtasks
                         ELSE Append(microtasks, [caller |-> "startup", arg |-> {}])
  /\ UNCHANGED <<owlFile, ores, oreqs>>
  /\ UNCHANGED <<adapterVars, fusionVars, nluVars, writerVars, textVars>>

\* loadOntology after its await sets the flag and returns; the handler that
\* awaited it goes on
LoadResume ==
  /\ microtasks # <<>>
  /\ loaded' = TRUE
  /\ microtasks' = Tail(microtasks)
  /\ LET caller == Head(microtasks).caller
         arg == Head(microtasks).arg
     IN ores' = CASE caller = "startup" -> ores
                  [] caller = "reload" ->
                       respond("reload", "loadOntology", TRUE, Returned({}))
                  [] caller = "getClasses" ->
                       respond("getClasses", "getClasses", TRUE, getClasses(store, TRUE))
                  [] caller = "searchByText" ->
                       respond("searchByText", "searchByText", TRUE,
                               searchByText(store, TRUE, arg))
  /\ UNCHANGED <<owlFile, store, started, oreqs>>
  /\ UNCHANGED <<adapterVars, fusionVars, nluVars, writerVars, textVars>>

\* The file is replaced, corrupted or removed
WriteOwlFile(file) ==
  /\ file # owlFile
  /\ owlFile' = file
  /\ UNCHANGED <<store, loaded, started, microtasks, ores, oreqs>>
  /\ UNCHANGED <<adapterVars, fusionVars, nluVars, writerVars, textVars>>

Accepts ==
  /\ MacrotaskMayStart
  /\ oreqs < MaxRequests
  /\ oreqs' = oreqs + 1
  /\ UNCHANGED <<owlFile, started>>
  /\ UNCHANGED <<adapterVars, fusionVars, nluVars, writerVars, textVars>>

\* POST /api/ontology/reload
ReloadOntology ==
  /\ Accepts
  /\ AwaitLoad("reload", {})

\* GET /api/ontology/classes
GetClasses ==
  /\ Accepts
  /\ IF ~loaded THEN AwaitLoad("getClasses", {})
     ELSE /\ ores' = respond("getClasses", "getClasses", loaded,
                             getClasses(store, loaded))
          /\ UNCHANGED <<store, loaded, microtasks>>

\* GET /api/ontology/search
SearchByText(searchTerms) ==
  /\ Accepts
  /\ IF ~loaded THEN AwaitLoad("searchByText", searchTerms)
     ELSE /\ ores' = respond("searchByText", "searchByText", loaded,
                             searchByText(store, loaded, searchTerms))
          /\ UNCHANGED <<store, loaded, microtasks>>

\* GET /api/ontology/instances/:className
GetInstancesOfClass(className) ==
  /\ Accepts
  /\ ores' = respond("getInstancesOfClass", "getInstancesOfClass", loaded,
                     getInstancesOfClass(store, loaded, className))
  /\ UNCHANGED <<store, loaded, microtasks>>

\* GET /api/ontology/properties
GetProperties ==
  /\ Accepts
  /\ ores' = respond("getProperties", "getProperties", loaded,
                     getProperties(store, loaded))
  /\ UNCHANGED <<store, loaded, microtasks>>

\* GET /api/ontology/stats
GetStats ==
  /\ Accepts
  /\ ores' = respond("getStats", "getOntologyStats", loaded,
                     getOntologyStats(store, loaded))
  /\ UNCHANGED <<store, loaded, microtasks>>

\* GET /api/unified/search with a mode that runs the local search and without
\* includeDbpedia, which leaves the adapter out: the controller answers with
\* what search returns
UnifiedSearchLocal(mode, searchTerms) ==
  /\ Accepts
  /\ runsLocal(mode)
  /\ ores' = success([done |-> TRUE, handler |-> "unifiedSearch",
                      op |-> "searchByText", loaded |-> loaded,
                      outcome |-> searchByText(store, loaded, searchTerms),
                      data |-> UnifiedSearchService_searchLocal(
                                 store, loaded, searchTerms),
                      status |-> 0, success |-> FALSE])
  /\ UNCHANGED <<store, loaded, microtasks>>

OntologyNext ==
  \/ StartupLoad
  \/ LoadResume
  \/ \E file \in OwlFiles : WriteOwlFile(file)
  \/ ReloadOntology
  \/ GetClasses
  \/ \E searchTerms \in SearchTerms : SearchByText(searchTerms)
  \/ \E className \in ClassNames : GetInstancesOfClass(className)
  \/ GetProperties
  \/ GetStats
  \/ \E mode \in {"local", "hybrid"}, searchTerms \in SearchTerms :
       UnifiedSearchLocal(mode, searchTerms)

OntologySpec == OntologyInit /\ [][OntologyNext]_vars

-----------------------------------------------------------------------------
(* Two cacheResults calls on one cache file *)

\* JSON.stringify(cacheData, null, 2), as the sequence of its parts
JSON_stringify(cacheData) ==
  LET english == cacheData.results.english
      spanish == cacheData.results.spanish
  IN << [tok |-> "{"],
        [tok |-> "searchTerm", v |-> cacheData.searchTerm] >>
     \o SubSeq([i \in 1..Len(english) |-> [tok |-> "english", v |-> english[i]]],
               1, Len(english))
     \o SubSeq([i \in 1..Len(spanish) |-> [tok |-> "spanish", v |-> spanish[i]]],
               1, Len(spanish))
     \o << [tok |-> "meta", total |-> cacheData.results.total,
            source |-> cacheData.results.source],
           [tok |-> "expiry", v |-> cacheData.expiry],
           [tok |-> "}"] >>

\* fs.readFile then JSON.parse: the content of a cache file as
\* getExactCacheResults sees it. A text that is not one whole JSON object
\* makes JSON.parse throw.
JSON_parse(file) ==
  IF file.kind # "text" THEN file
  ELSE
    LET text == file.text
        n == Len(text)
        items == SubSeq(text, 3, n - 3)
        english == SelectSeq(items, LAMBDA x : x.tok = "english")
        spanish == SelectSeq(items, LAMBDA x : x.tok = "spanish")
        wellFormed ==
          /\ n >= 5
          /\ text[1].tok = "{"
          /\ text[2].tok = "searchTerm"
          /\ text[n - 2].tok = "meta"
          /\ text[n - 1].tok = "expiry"
          /\ text[n].tok = "}"
          /\ items = english \o spanish
    IN IF wellFormed
       THEN [kind |-> "entry", searchTerm |-> text[2].v,
             results |-> [english |-> [i \in 1..Len(english) |-> english[i].v],
                          spanish |-> [i \in 1..Len(spanish) |-> spanish[i].v],
                          total |-> text[n - 2].total,
                          source |-> text[n - 2].source],
             expiry |-> text[n - 1].v]
       ELSE CorruptFile

\* What the remote search of a request may have found
WriterResults ==
  {searchOnline([l \in Langs |->
                   IF l \in fulfilled
                   THEN [st |-> "fulfilled",
                         val |-> parseOnlineResults(
                                   [kind |-> "sparql", bindings |-> <<BindingBj>>], l)]
                   ELSE [st |-> "rejected", val |-> <<>>]]) :
     fulfilled \in {{"en"}, {"en", "es"}}}

\* cacheResults up to the point where fs.writeFile has opened the file: the open
\* creates it or truncates it to length 0
CacheResultsOpens(w, searchTerm, results) ==
  /\ writers[w].st = "idle"
  /\ writers' =
       [writers EXCEPT ![w] =
          [st |-> "opened",
           data |-> JSON_stringify([searchTerm |-> searchTerm, results |-> results,
                                    expiry |-> now + cacheExpiry])]]
  /\ wfile' = [kind |-> "text", text |-> <<>>]
  /\ UNCHANGED <<adapterVars, fusionVars, nluVars, ontologyVars, textVars>>

\* fs.writeFile writes its text from position 0 of the file it opened and
\* closes it; what the file holds beyond the end of that text stays
CacheResultsWrites(w) ==
  /\ writers[w].st = "opened"
  /\ LET data == writers[w].data
     IN wfile' = [kind |-> "text",
                  text |-> data \o SubSeq(wfile.text, Len(data) + 1,
                                          Len(wfile.text))]
  /\ writers' = [writers EXCEPT ![w].st = "done"]
  /\ UNCHANGED <<adapterVars, fusionVars, nluVars, ontologyVars, textVars>>

WriterNext ==
  \/ \E w \in Writers, searchTerm \in {TermBj, TermBjMark},
        results \in WriterResults : CacheResultsOpens(w, searchTerm, results)
  \/ \E w \in Writers : CacheResultsWrites(w)

WriterSpec == Init /\ [][WriterNext]_vars

-----------------------------------------------------------------------------
(* OntologyService.searchByText over the statements in the order of the store *)

\* .slice(0, 10)
TopResults == 10

\* extractLocalName: what follows the first "#", or else the last "/"
extractLocalName(uri) ==
  LET u == Chars(uri)
      hashes == {i \in 1..Len(u) : u[i] = "#"}
      slashes == {i \in 1..Len(u) : u[i] = "/"}
  IN IF hashes # {}
     THEN LET a == CHOOSE i \in hashes : \A j \in hashes : i <= j
              later == hashes \ {a}
              b == IF later = {} THEN Len(u) + 1
                   ELSE CHOOSE i \in later : \A j \in later : i <= j
          IN SubSeq(u, a + 1, b - 1)
     ELSE IF slashes = {} THEN u
     ELSE SubSeq(u, (CHOOSE i \in slashes : \A j \in slashes : j <= i) + 1, Len(u))

isTechnicalProperty(uri) ==
  LET name == toLowerCase(extractLocalName(uri))
  IN \E term \in {"property", "relation", "attribute", "field", "column",
                  "datatype"} : includes(name, Chars(term))

isDescriptiveProperty(predicate) ==
  LET propName == toLowerCase(Chars(predicate))
  IN \E prop \in {"descripcion", "description", "definicion", "definition",
                  "reglas", "rules", "objetivo", "objective", "caracteristicas",
                  "ventajas", "desventajas", "probabilidad", "estrategia"} :
       includes(propName, Chars(prop))

isRelevantConcept(name) ==
  LET nameLower == toLowerCase(name)
  IN /\ ~\E term \in {"thing", "resource", "namedindividual", "individual"} :
           includes(nameLower, Chars(term))
     /\ Len(name) > 2

calculateConceptRelevance(name, searchTerms) ==
  LET nameLower == SubSeq(toLowerCase(name), 1, Len(name))
  IN 1 + SeqSum([i \in 1..Len(searchTerms) |->
                   IF nameLower = searchTerms[i] THEN 10
                   ELSE IF includes(nameLower, searchTerms[i]) THEN 5
                   ELSE IF includes(searchTerms[i], nameLower) THEN 3
                   ELSE 0])

isRelevantForDisplay(result) ==
  result.relevance > 1 /\ Truthy(result.name) /\ Len(result.name) > 2

\* The body of allStatements.forEach: the entries of the results map, in the
\* order of their insertion, after one more statement
ScanStatement(results, statement, searchTerms) ==
  LET uri == statement.s
      name == extractLocalName(uri)
      nameLower == toLowerCase(name)
      has(map) == \E i \in 1..Len(map) : map[i].uri = uri
      byName ==
        /\ includes(Chars(statement.p), Chars("type"))
        /\ includes(Chars(uri), <<"#">>)
        /\ ~isTechnicalProperty(uri)
        /\ \E i \in 1..Len(searchTerms) : includes(nameLower, searchTerms[i])
        /\ isRelevantConcept(name)
      named ==
        IF byName /\ ~has(results)
        THEN Append(results,
                    [uri |-> uri, name |-> name,
                     relevance |-> calculateConceptRelevance(name, searchTerms)])
        ELSE results
      byLiteral ==
        /\ includes(Chars(uri), <<"#">>)
        /\ isDescriptiveProperty(statement.p)
        /\ statement.o # ""
        /\ \E i \in 1..Len(searchTerms) :
             includes(toLowerCase(Chars(statement.o)), searchTerms[i])
  IN IF ~byLiteral THEN named
     ELSE IF ~has(named) /\ isRelevantConcept(name)
     THEN Append(named, [uri |-> uri, name |-> name, relevance |-> 1])
     ELSE IF has(named)
     THEN SubSeq([i \in 1..Len(named) |->
                    IF named[i].uri = uri
                    THEN [named[i] EXCEPT !.relevance = @ + 1]
                    ELSE named[i]], 1, Len(named))
     ELSE named

\* allStatements.forEach over the first n statements
RECURSIVE ScanStatements(_, _, _)
ScanStatements(allStatements, searchTerms, n) ==
  IF n = 0 THEN <<>>
  ELSE ScanStatement(ScanStatements(allStatements, searchTerms, n - 1),
                     allStatements[n], searchTerms)

\* nlpResult.searchTerms.map((term) => term.toLowerCase())
LowerTerms(terms) ==
  SubSeq([i \in 1..Len(terms) |-> SubSeq(toLowerCase(terms[i]), 1, Len(terms[i]))],
         1, Len(terms))

\* formatAsGoogleStyle: of the record it builds, what identifies the subject
\* and its rank
formatAsGoogleStyle(result) ==
  [uri |-> result.uri, relevance |-> result.relevance, resultType |-> "local"]

\* searchByText that returns every result it ranked
OntologyService_searchByTextUncapped(allStatements, isLoaded, terms) ==
  IF ~isLoaded THEN Thrown("Ontología no cargada")
  ELSE LET results == ScanStatements(allStatements, LowerTerms(terms),
                                     Len(allStatements))
           sorted == sortByRelevance(SelectSeq(results, isRelevantForDisplay))
       IN Returned(SubSeq([i \in 1..Len(sorted) |-> formatAsGoogleStyle(sorted[i])],
                          1, Len(sorted)))

\* searchByText, for the search terms processQuery made of the text and the
\* statements in the order store.statements holds them
OntologyService_searchByText(allStatements, isLoaded, terms) ==
  IF ~isLoaded THEN Thrown("Ontología no cargada")
  ELSE LET results == ScanStatements(allStatements, LowerTerms(terms),
                                     Len(allStatements))
           sorted == sortByRelevance(SelectSeq(results, isRelevantForDisplay))
           top == SubSeq(sorted, 1, IF Len(sorted) < TopResults
                                    THEN Len(sorted) ELSE TopResults)
       IN Returned(SubSeq([i \in 1..Len(top) |-> formatAsGoogleStyle(top[i])],
                          1, Len(top)))

\* Subjects of the large graph
MaxSubjects == 12

\* A small graph: two games, each with its type and one descriptive literal
SmallGraph ==
  {St("c#Blackjack", "rdf:type", "c#Juego"),
   St("c#Blackjack", "c#descripcion", "Blackjack de casino"),
   St("c#Poker", "rdf:type", "c#Juego"),
   St("c#Poker", "c#reglas", "se apuesta como en el blackjack")}

\* The orders in which a store may hold the statements of a graph
Orders(graph) ==
  {order \in [1..Cardinality(graph) -> graph] : Range(order) = graph}

\* A large graph: MaxSubjects games by type, a property, and a descriptive
\* literal for each game after the tenth
SubjectNames == Chars("ABCDEFGHIJKLMNOP")
Game(k) == "c#Juego" \o SubjectNames[k]
LargeGraph ==
  SubSeq([k \in 1..MaxSubjects |-> St(Game(k), "rdf:type", "c#Juego")],
         1, MaxSubjects)
  \o <<St("c#juegoProperty", "rdf:type", "owl:DatatypeProperty")>>
  \o SubSeq([k \in 1..(MaxSubjects - TopResults) |->
               St(Game(TopResults + k), "c#descripcion", "un juego de mesa")],
            1, MaxSubjects - TopResults)

\* s backwards
Reversed(s) == SubSeq([i \in 1..Len(s) |-> s[Len(s) + 1 - i]], 1, Len(s))

\* The search terms of the text searches
TextTerms == {<<Chars("blackjack")>>, <<Chars("Poker")>>,
              <<Chars("blackjack"), Chars("poker")>>}

TextInputs ==
  {[statements |-> order, searchTerms |-> terms] :
     order \in Orders(SmallGraph), terms \in TextTerms}
  \cup {[statements |-> SubSeq(LargeGraph, 1, n), searchTerms |-> <<Chars("juego")>>] :
          n \in 0..Len(LargeGraph)}
  \cup {[statements |-> Reversed(LargeGraph), searchTerms |-> <<Chars("juego")>>]}

TextInit ==
  /\ AdapterIdle
  /\ FusionIdle
  /\ NluIdle
  /\ OntologyIdle
  /\ WriterIdle
  /\ tin \in TextInputs
  /\ tout = NotSearched

\* searchByText(tin) on a loaded ontology
SearchByTextReturns ==
  /\ ~tout.done
  /\ tout' = [done |-> TRUE,
              results |-> OntologyService_searchByText(
                            tin.statements, TRUE, tin.searchTerms).value]
  /\ UNCHANGED tin
  /\ UNCHANGED <<adapterVars, fusionVars, nluVars, ontologyVars, writerVars>>

TextNext == SearchByTextReturns

TextSpec == TextInit /\ [][TextNext]_vars

-----------------------------------------------------------------------------
(* Properties of searchWithFallback *)

StageOrder == <<"local-dataset", "cache-exact", "cache-fuzzy", "online">>

\* The stages of tr are the first ones of StageOrder, in order, and only the
\* last one may have yielded a match
InOrder(tr) ==
  /\ Len(tr) <= Len(StageOrder)
  /\ \A i \in 1..Len(tr) :
       tr[i].stage = StageOrder[i] /\ (i < Len(tr) => tr[i].total = 0)

EmptyResult ==
  [english |-> <<>>, spanish |-> <<>>, total |-> 0, source |-> "empty"]

\* C1: searchWithFallback consults local dataset, exact-key cache, fuzzy cache
\* and remote query in that order; it returns at the first stage that yields a
\* match, tagged with that stage's source, and consults no stage after it; it
\* fetches only after the three local stages found nothing.
C1_StagesInOrder ==
  /\ InOrder(trace)
  /\ InOrder(last.trace)
  /\ \A i \in 1..Len(trace) : trace[i].total > 0 => pc = "caching"
  /\ remote > 0 => Len(trace) >= 3 \/ pc = "idle"
  /\ last.remote > 0 => Len(last.trace) = Len(StageOrder)
  /\ last.trace # <<>> =>
       LET final == last.trace[Len(last.trace)]
       IN IF final.total > 0
          THEN /\ last.result.source = final.stage
               /\ last.result.total = final.total
          ELSE /\ Len(last.trace) = Len(StageOrder)
               /\ last.result.total = 0

\* A call that went through the dataset and the exact key and returned what
\* the fuzzy scan of the cache found
C1_ReturnsAtFuzzyCache ==
  /\ last.result.source = "cache-fuzzy"
  /\ Len(last.trace) = 3
  /\ last.remote = 0

\* The ranked order of a result: the uris of its two lists
Order(result) ==
  [english |-> [i \in 1..Len(result.english) |-> result.english[i].uri],
   spanish |-> [i \in 1..Len(result.spanish) |-> result.spanish[i].uri]]

\* A step in which searchWithFallback returns to the unified search
Returns ==
  /\ pc' = "idle"
  /\ req'.adapter
  /\ req'.status = 200
  /\ pc # "idle" \/ searches' # searches

C3_NeverRaises ==
  /\ ~last.raised
  /\ (pc = "idle" /\ req.adapter) => req.status = 200
  /\ (last.trace # <<>> /\ \A i \in 1..Len(last.trace) : last.trace[i].total = 0)
       => last.result = EmptyResult

\* A call whose remote stage timed out and which returned the empty result
C3_EmptyAfterTimeout ==
  /\ last.result = EmptyResult
  /\ Len(last.trace) = Len(StageOrder)
  /\ last.remote > 0
  /\ ~isOnline

\* C4: a unified search that reaches the remote stage returns even if the
\* endpoints never respond: the wait ends with the 6 s or the 8 s timer, and
\* the request is answered with status 200 and, unless a sub-query delivered
\* results, with the empty result.
C4_BoundedResponse ==
  (pc = "online")
    ~> (/\ pc = "idle"
        /\ req.status = 200
        /\ ~last.raised
        /\ last.result.source # "online" => last.result = EmptyResult)

\* The 8 s timer ended a call while a response body was still awaited
C4_ReturnedWhileBodyAwaited ==
  /\ pc = "idle"
  /\ ~isOnline
  /\ last.result = EmptyResult
  /\ \E l \in Langs : subq[l].st = "body"

\* The list of a result for language l
ListOf(result, l) == IF l = "en" THEN result.english ELSE result.spanish

\* C5: when the remote stage ends and one sub-query has succeeded with results,
\* the adapter returns them with source 'online', whatever became of the other
\* sub-query.
C5_LanguagesIndependent ==
  [][(/\ pc = "online"
      /\ pc' # "online"
      /\ \E l \in Langs : subq[l].st = "fulfilled" /\ subq[l].val # <<>>)
     => /\ pc' = "caching"
        /\ pending'.source = "online"
        /\ \A l \in Langs :
             subq[l].st = "fulfilled" => ListOf(pending', l) = subq[l].val]_vars

\* C10: a unified search with mode = 'local' never invokes searchWithFallback,
\* whatever includeDbpedia is.
C10_LocalModeSkipsAdapter ==
  req.mode = "local" => ~req.adapter /\ pc = "idle" /\ trace = <<>>

\* A search with mode = 'local' and includeDbpedia = true was answered
C10_LocalModeWithFlag ==
  /\ req.mode = "local"
  /\ req.includeDbpedia
  /\ req.local
  /\ req.status = 200

\* C11: a request to /api/unified/search with an empty or missing query is
\* answered with HTTP 400 and success = false, and neither the local search nor
\* the external adapter is invoked for it: the adapter's state is untouched.
C11_EmptyQueryRejected ==
  [][(searches' = searches + 1 /\ ~Truthy(req'.query)) =>
       /\ req'.status = 400
       /\ ~req'.success
       /\ ~req'.local
       /\ ~req'.adapter
       /\ UNCHANGED <<pc, trace, remote, last, cacheDir, subq, isOnline,
                      pending>>]_vars

\* A request with an empty query was rejected after an earlier search had been
\* served by the adapter
C11_RejectedAfterSearch ==
  /\ searches = 2
  /\ ~Truthy(req.query)
  /\ req.status = 400
  /\ last.term # <<>>

Persisted(term, result, t) ==
  [kind |-> "entry", searchTerm |-> term, results |-> result,
   expiry |-> t + cacheExpiry]

\* A search that went online returns in this step
OnlineSearchReturns == pc \in {"online", "caching"} /\ pc' = "idle"

\* No step but the return of an online search adds or rewrites a cache file
OnlyDeletions ==
  ~OnlineSearchReturns =>
    \A f \in FileNames : cacheDir'[f] \in {cacheDir[f], NoFile}

\* C20 as stated: a remote search is persisted exactly when it succeeds with at
\* least one result, under the term's normalized key with expiry = write time
\* + 7 days; one that returns nothing, throws or times out writes nothing.
C20_PersistedExactlyOnSuccess ==
  [][/\ OnlyDeletions
     /\ OnlineSearchReturns =>
          IF last'.result.source = "online" /\ last'.result.total > 0
          THEN cacheDir' = [cacheDir EXCEPT ![generateCacheKey(req.query)] =
                              Persisted(req.query, last'.result, now)]
          ELSE cacheDir' = cacheDir]_vars

\* C20, amended: the same, for a remote search that succeeds with at least one
\* result and whose file write succeeds; when the write fails nothing is
\* written and the results are returned all the same.
C20_PersistedOnSuccessfulWrite ==
  [][/\ OnlyDeletions
     /\ OnlineSearchReturns =>
          /\ last'.wrote =>
                last'.result.source = "online" /\ last'.result.total > 0
          /\ (pc = "caching") <=>
                (last'.result.source = "online" /\ last'.result.total > 0)
          /\ IF last'.wrote
             THEN cacheDir' = [cacheDir EXCEPT ![generateCacheKey(req.query)] =
                                 Persisted(req.query, last'.result, now)]
             ELSE cacheDir' = cacheDir]_vars

\* A remote search that found something some time after the service started
\* has returned, and the cache holds its results with the expiry counted from
\* the time of the write
C20_WrittenWithExpiry ==
  /\ pc = "idle"
  /\ last.result.source = "online"
  /\ last.wrote
  /\ last.doneAt > 0
  /\ cacheDir[generateCacheKey(last.term)] =
       Persisted(last.term, last.result, last.doneAt)

-----------------------------------------------------------------------------
(* Properties of combineAndRankResults *)

\* The list combineAndRankResults returned
Out == fout.results

\* The candidates it was given, as pushed to allResults
All ==
  allResults(fin.local, [english |-> fin.english, spanish |-> fin.spanish],
             fin.query)

\* C6 as stated: a local candidate is ranked before every remote candidate
\* that came with the same base relevance.
C6_LocalFirstAtEqualBase ==
  fout.done =>
    \A i, j \in 1..Len(Out) :
      (/\ Out[i].resultType = "local"
       /\ Out[j].resultType = "dbpedia"
       /\ Out[i].base = Out[j].base) => i < j

\* C6, amended: a local candidate is ranked before every remote candidate of
\* the returned list whose relevance after the fusion-time bonuses, before the
\* boost, equals its own.
C6_LocalFirstAtEqualRelevance ==
  fout.done =>
    \A i, j \in 1..Len(Out) :
      (/\ Out[i].resultType = "local"
       /\ Out[j].resultType = "dbpedia"
       /\ Out[i].relevance = Out[j].relevance) => i < j

\* A local and a remote candidate of equal relevance are both in the list
C6_EqualRelevancePair ==
  /\ fout.done
  /\ \E i, j \in 1..Len(Out) :
       /\ Out[i].resultType = "local"
       /\ Out[j].resultType = "dbpedia"
       /\ Out[i].relevance = Out[j].relevance
       /\ i < j

\* C7: no two entries of the returned list have the same normalized name, and
\* every group of candidates with equal normalized names is represented by one
\* of its members with the highest score x boost of the group.
C7_Deduplicated ==
  fout.done =>
    /\ \A i, j \in 1..Len(Out) :
         i # j => DedupName(Out[i]) # DedupName(Out[j])
    /\ \A i \in 1..Len(Out) : \E k \in 1..Len(All) : Out[i] = All[k]
    /\ \A k \in 1..Len(All) :
         \E i \in 1..Len(Out) :
           /\ DedupName(Out[i]) = DedupName(All[k])
           /\ Score(Out[i]) >= Score(All[k])

\* A later candidate of a higher score replaced the first one of its group
C7_HigherDuplicateKept ==
  /\ fout.done
  /\ \E i \in 1..Len(Out) : \E k \in 1..Len(All) :
       /\ DedupName(All[k]) = DedupName(Out[i])
       /\ All[k].pos < Out[i].pos
       /\ Score(All[k]) < Score(Out[i])

\* One local and one remote candidate were fused
OnePair ==
  /\ fout.done
  /\ Len(fin.local) = 1
  /\ Len(fin.english) + Len(fin.spanish) = 1

\* The pair has these display names
PairNamed(localName, remoteLabel) ==
  /\ OnePair
  /\ All[1].name = localName
  /\ All[2].label = remoteLabel

\* The higher-scoring of the two candidates of a pair, the local one on a tie
Higher == IF Score(All[2]) > Score(All[1]) THEN All[2] ELSE All[1]

\* C8 as stated: local "Blackjack" and remote "Blackjack (casino game)" have
\* the same normalized name and fuse into one entry, the higher-scoring one.
C8_QualifiedNameCollides ==
  PairNamed(NameBlackjack, NameCasinoGame) =>
    /\ DedupName(All[1]) = DedupName(All[2])
    /\ Out = <<Higher>>

\* C8, amended: a local and a remote candidate fuse into one entry, the
\* higher-scoring of the two, exactly when their names agree on the first 20
\* lowercase ASCII letters and digits, as "Blackjack (casino game show)" and
\* "Blackjack casino games" do; "Blackjack" and "Blackjack (casino game)" do
\* not, and both remain.
C8_FoldCollision ==
  /\ OnePair =>
       IF DedupName(All[1]) = DedupName(All[2])
       THEN Out = <<Higher>>
       ELSE Len(Out) = 2
  /\ PairNamed(NameGameShow, NameCasinoGames) => Len(Out) = 1
  /\ PairNamed(NameBlackjack, NameCasinoGame) => Len(Out) = 2

\* Two names that differ after the twentieth character were fused into one
C8_TruncatedNamesFused ==
  /\ PairNamed(NameGameShow, NameCasinoGames)
  /\ Out = <<Higher>>

\* C9 as stated: the returned list is in non-increasing order of score x boost
\* and entries of equal score x boost are in insertion order.
C9_TiesInInsertionOrder ==
  fout.done =>
    \A i, j \in 1..Len(Out) :
      i < j => /\ Score(Out[i]) >= Score(Out[j])
               /\ Score(Out[i]) = Score(Out[j]) => Out[i].pos < Out[j].pos

\* The place an entry holds in the deduplicated list: that of the first
\* candidate inserted with its normalized name
Slot(entry) ==
  LET group == {k \in 1..Len(All) : DedupName(All[k]) = DedupName(entry)}
  IN CHOOSE k \in group : \A m \in group : k <= m

\* C9, amended: the returned list is in non-increasing order of score x boost
\* and entries of equal score x boost are in the order of the first inserted
\* candidates of their normalized names.
C9_TiesInSlotOrder ==
  fout.done =>
    \A i, j \in 1..Len(Out) :
      i < j => /\ Score(Out[i]) >= Score(Out[j])
               /\ Score(Out[i]) = Score(Out[j]) => Slot(Out[i]) < Slot(Out[j])

\* Two entries tie and the one inserted later, which replaced an earlier
\* duplicate, comes first
C9_ReplacedEntryLeadsTie ==
  /\ fout.done
  /\ \E i, j \in 1..Len(Out) :
       /\ i < j
       /\ Score(Out[i]) = Score(Out[j])
       /\ Out[i].pos > Out[j].pos

-----------------------------------------------------------------------------
(* Properties of the response of UnifiedSearchService.search *)

\* The maxResults a caller asks for with a raw parameter that is an integer
RequestedMaxResults ==
  [raw \in {<<"0">>, <<"1">>, <<"2">>, <<"-","1">>} |->
     CASE raw = <<"0">> -> 0 [] raw = <<"1">> -> 1 [] raw = <<"2">> -> 2
       [] raw = <<"-","1">> -> 0 - 1]

\* C17: the results of a unified search are exactly the first maxResults
\* entries of the fused ranked list (all of them when the list is shorter),
\* for every maxResults the caller supplies, with 20 used when it is absent;
\* the returned list never has more than maxResults entries.
C17_FirstMaxResults ==
  (fres.done /\ (fres.raw = <<>> \/ fres.raw \in DOMAIN RequestedMaxResults)) =>
    LET maxResults == IF fres.raw = <<>> THEN DefaultMaxResults
                      ELSE RequestedMaxResults[fres.raw]
        n == IF maxResults < Len(Out) THEN maxResults ELSE Len(Out)
    IN /\ fres.results = SubSeq(Out, 1, n)
       /\ Len(fres.results) <= maxResults

\* C18: stats.local and stats.dbpedia are the numbers of local and external
\* candidates before deduplication and truncation, and no entry of the fused
\* result has a relevance above stats.maxRelevance, which is 0 when the result
\* is empty.
C18_StatsOfFusion ==
  fres.done =>
    /\ fres.stats.local = Len(fin.local)
    /\ fres.stats.dbpedia = Len(fin.english) + Len(fin.spanish)
    /\ \A i \in 1..Len(fres.results) :
         fres.results[i].relevance <= fres.stats.maxRelevance
    /\ fres.results = <<>> => fres.stats.maxRelevance = 0

-----------------------------------------------------------------------------
(* Properties of processQuery and detectIntent *)

\* The value of the catch block, for a query of any type
FallbackOf(query) ==
  [original |-> query,
   normalized |-> IF query.type = "string" THEN toLowerCase(query.chars) ELSE <<>>,
   language |-> "es", tokens |-> <<query>>, searchTerms |-> <<query>>]

\* C16: processQuery returns a result for every query, and the result is the
\* fallback (normalized = lowercase(original), language 'es', tokens and
\* searchTerms = [original]) whenever a step of it failed.
C16_NeverRaises ==
  nout.done =>
    /\ ~nout.outcome.thrown
    /\ nout.caught => nout.outcome.value = FallbackOf(nin)

\* The priority order of the intents, the specific sub-queries last
PriorityOrder ==
  <<"probability", "payout", "rules", "strategy", "comparison", "houseEdge",
    "definition", "redBlackRoulette", "numberRoulette", "evenOdd",
    "blackjackNatural", "insurance", "pokerHands", "specificGame">>

\* The earliest intent of PriorityOrder one of whose patterns, in the table
\* of the service, matches the text
EarliestInOrder(table, text) ==
  LET hits == {n \in 1..Len(PriorityOrder) :
                 \E k \in 1..Len(table) :
                    /\ table[k].intent = PriorityOrder[n]
                    /\ \E p \in 1..Len(table[k].patterns) :
                         test(table[k].patterns[p], text)}
  IN IF hits = {} THEN "search"
     ELSE PriorityOrder[CHOOSE n \in hits : \A j \in hits : n <= j]

\* C19: the intent detectIntent gives a normalized text is the earliest
\* intent, in the order probability, payout, rules, strategy, comparison,
\* house edge, definition, specific sub-queries, that has a matching pattern,
\* and 'search' when no intent has one.
C19_FirstMatchInPriorityOrder ==
  (nout.done /\ ~nout.caught) =>
    nout.outcome.value.intent =
      EarliestInOrder(IF nout.service = "NLPService" THEN NLPService_patterns
                      ELSE queryPatterns,
                      nout.outcome.value.normalized)

-----------------------------------------------------------------------------
(* Properties of OntologyService *)

\* The graphs a complete parse of a well-formed file gives
CompleteGraphs ==
  {Range(f.statements) : f \in {g \in OwlFiles : g.kind = "file" /\ g.errorAt = 0}}

\* The operation threw the not-loaded error
IsNotLoaded(outcome) ==
  /\ outcome.thrown
  /\ outcome.error \in {"Ontología no cargada",
                       "Ontología no cargada. Llame a loadOntology() primero."}

QueryOperations ==
  {"getClasses", "getInstancesOfClass", "searchByText", "getProperties",
   "getOntologyStats"}

\* What the operation returns from the graph, for each of its arguments
AnswersFrom(op, graph) ==
  CASE op = "getClasses" -> {getClasses(graph, TRUE)}
    [] op = "getInstancesOfClass" ->
         {getInstancesOfClass(graph, TRUE, className) : className \in ClassNames}
    [] op = "searchByText" ->
         {searchByText(graph, TRUE, searchTerms) : searchTerms \in SearchTerms}
    [] op = "getProperties" -> {getProperties(graph, TRUE)}
    [] op = "getOntologyStats" -> {getOntologyStats(graph, TRUE)}

\* C13: while loaded is true the store is the complete graph of a well-formed
\* version of the file, the old one or the new one, never an empty or partly
\* parsed graph, and every query operation that returned data returned it
\* from such a graph.
C13_CompleteGraphWhileLoaded ==
  /\ loaded => store \in CompleteGraphs
  /\ (ores.done /\ ores.op \in QueryOperations /\ ~ores.outcome.thrown) =>
       \E graph \in CompleteGraphs : ores.outcome \in AnswersFrom(ores.op, graph)

\* A reload is in flight with loaded still true and the new graph complete
\* in the store, after a query was answered from the old graph
C13_ReloadInFlight ==
  /\ microtasks # <<>>
  /\ Head(microtasks).caller = "reload"
  /\ loaded
  /\ store = Range(GraphB)
  /\ ores.done
  /\ ores.op = "getClasses"
  /\ ores.outcome = getClasses(Range(GraphA), TRUE)

\* C14: loaded is true when a successful loadOntology returns and becomes
\* true in no other way, and a query operation called while loaded is false
\* fails with the not-loaded error and returns no data.
C14_LoadInvariant ==
  [][/\ (microtasks # <<>> /\ microtasks' = Tail(microtasks)) => loaded'
     /\ (~loaded /\ loaded') => (microtasks # <<>> /\ microtasks' = Tail(microtasks))
     /\ (ores'.done /\ ores'.op \in QueryOperations /\ ~ores'.loaded) =>
          (IsNotLoaded(ores'.outcome) /\ ores'.outcome.value = {})]_vars

\* getProperties was refused although the store holds statements
C14_RefusedBeforeLoad ==
  /\ ores.done
  /\ ores.op = "getProperties"
  /\ ~ores.loaded
  /\ IsNotLoaded(ores.outcome)
  /\ ores.status = 500
  /\ store # {}

\* C15: a request whose query operation failed because the ontology was not
\* loaded, a unified search that runs the local search included, is answered
\* with HTTP 500 and success = false.
C15_NotLoadedIsHttp500 ==
  (ores.done /\ IsNotLoaded(ores.outcome)) =>
    (ores.status = 500 /\ ~ores.success)

\* This step is a call of loadOntology that throws: at startup, or awaited by
\* a handler
FailedLoad ==
  /\ loadOntology(owlFile, store, loaded).thrown
  /\ \/ ~started /\ started'
     \/ oreqs' = oreqs + 1 /\ ores'.done /\ ores'.op = "loadOntology"

\* What the query operations give on the graph with the flag as it is
OutcomesOf(graph, isLoaded) ==
  {getClasses(graph, isLoaded), getProperties(graph, isLoaded),
   getOntologyStats(graph, isLoaded)}
  \cup {getInstancesOfClass(graph, isLoaded, className) : className \in ClassNames}
  \cup {searchByText(graph, isLoaded, searchTerms) : searchTerms \in SearchTerms}

\* C30: a loadOntology call that fails leaves loaded = false, whatever it was
\* before; while loaded is false every query operation fails with the
\* not-loaded error, whatever the store holds; and loaded becomes true again
\* only when a loadOntology call has parsed a whole well-formed file.
C30_FailedLoadRefusesQueries ==
  [][/\ FailedLoad => ~loaded'
     /\ ~loaded' => \A outcome \in OutcomesOf(store', loaded') : IsNotLoaded(outcome)
     /\ (~loaded /\ loaded') =>
          (microtasks # <<>> /\ microtasks' = Tail(microtasks)
             /\ store' \in CompleteGraphs)]_vars

\* A reload found the file missing after an earlier load had succeeded: the
\* store still holds the whole graph of that load, loaded is false and
\* getClasses is refused
C30_StaleGraphRefused ==
  /\ ores.done
  /\ ores.handler = "reload"
  /\ ores.op = "loadOntology"
  /\ ores.outcome.thrown
  /\ owlFile = MissingFile
  /\ store \in CompleteGraphs
  /\ ~loaded
  /\ IsNotLoaded(getClasses(store, loaded))

-----------------------------------------------------------------------------
(* Properties of the cache directory *)

\* The files that cannot be parsed as JSON
Unparseable(dir) == {f \in FileNames : dir[f].kind = "corrupt"}

ValidFiles(dir, t) ==
  {f \in FileNames : dir[f].kind \in {"entry", "detail"} /\ t <= dir[f].expiry}

\* C26: no step of a search removes a cache file that is well-formed JSON and
\* not expired; the detail file written by cacheDetailedInfo can be read by
\* getDetailFromCache as long as it has not expired.
C26_ValidFilesSurvive ==
  [][/\ \A f \in ValidFiles(cacheDir, now) : cacheDir'[f] # NoFile
     /\ now' <= InitialDir[<<"d","e","t","a","i","l","_","b","j">>].expiry
          => getDetailFromCache(cacheDir', <<"b","j">>, now').res = DetailBj]_vars

\* C28: a search asked with preferOffline = true issues no remote query: it
\* never reaches the remote stage and the count of fetches does not move.
C28_PreferOfflineIssuesNoFetch ==
  [][(req.preferOffline /\ pc # "idle") => pc' # "online" /\ remote' = remote]_vars

\* C29: a result returned with source 'cache-exact' comes from a cache file
\* that was stored for the term searched
C29_ExactHitOfSearchedTerm ==
  [][(pc = "cacheExact" /\ pc' = "idle")
       => cacheDir[generateCacheKey(req.query)].searchTerm = req.query]_vars

-----------------------------------------------------------------------------
(* Properties of the remote stage after its timeout *)

\* A sub-query of a search whose remote stage is over gets its response
LateResponse ==
  /\ pc # "online"
  /\ pc' # "online"
  /\ \E l \in Langs : subq[l].st \in {"headers", "body"} /\ subq'[l] # subq[l]

\* C24: a sub-query response that arrives after the 8 s timer ended the remote
\* stage changes nothing but the sub-query itself: no cache file is written,
\* the result already returned and the answered request stay as they are, and
\* a search that has started since is not touched.
C24_LateResponsesDiscarded ==
  [][LateResponse =>
       UNCHANGED <<cacheDir, last, req, pc, trace, pending, isOnline>>]_vars

\* The only search timed out while a response body was awaited, and that body
\* has arrived since: the answer is still the empty result and the cache
\* directory is the one the fuzzy scan left
C24_LateBodyDropped ==
  /\ searches = 1
  /\ pc = "idle"
  /\ ~isOnline
  /\ \A l \in Langs : subq[l].st = "none"
  /\ last.result = getEmptyResult
  /\ req.status = 200
  /\ \A f \in FileNames : cacheDir[f].kind = "entry" => cacheDir[f] = OldEntry

-----------------------------------------------------------------------------
(* Properties of two cacheResults calls in flight at once *)

\* C25: once both writes for one cache key are over, the file holds the whole
\* text of one of them, and an exact lookup for the key before the expiry
\* returns the results of that one.
C25_OneWholePayload ==
  (\A w \in Writers : writers[w].st = "done") =>
    \E w \in Writers :
      /\ wfile.text = writers[w].data
      /\ \A searchTerm \in {TermBj, TermBjMark} :
           getExactCacheResults(
             [EmptyDir EXCEPT ![generateCacheKey(searchTerm)] = JSON_parse(wfile)],
             searchTerm, now).res
           = JSON_parse([kind |-> "text", text |-> writers[w].data]).results

-----------------------------------------------------------------------------
(* Properties of searchByText *)

\* The entries of the results map when the scan of tin is over: each subject
\* collected, with its accumulated relevance
Collected ==
  ScanStatements(tin.statements, LowerTerms(tin.searchTerms), Len(tin.statements))

\* The subjects searchByText returned
ReturnedSubjects == {tout.results[i].uri : i \in 1..Len(tout.results)}

MatchingSubjects ==
  LET searchTerms == LowerTerms(tin.searchTerms)
      matches(text) == \E i \in 1..Len(searchTerms) :
                         includes(toLowerCase(text), searchTerms[i])
  IN {st.s : st \in
        {x \in Range(tin.statements) :
           /\ ~isTechnicalProperty(x.s)
           /\ \/ matches(extractLocalName(x.s))
              \/ isDescriptiveProperty(x.p) /\ matches(Chars(x.o))}}

\* C23: searchByText returns only matching subjects, and all of them unless
\* it returned 10
C23_EveryMatchReturned ==
  tout.done =>
    /\ ReturnedSubjects \subseteq MatchingSubjects
    /\ Len(tout.results) < TopResults => MatchingSubjects \subseteq ReturnedSubjects

\* The other orders of the statements of tin: all of them for a small graph,
\* the reverse order for a larger one
Reorderings ==
  IF Len(tin.statements) <= Cardinality(SmallGraph)
  THEN Orders(Range(tin.statements))
  ELSE {Reversed(tin.statements)}

\* C27: searchByText returns the same subjects with the same relevance in the
\* same order for every order of the statements
C27_OrderIndependent ==
  tout.done =>
    \A order \in Reorderings :
      OntologyService_searchByText(order, TRUE, tin.searchTerms).value = tout.results

====
